---- MODULE Spec2Model ----
(***************************************************************************)
(* aoide: directory entry cache (media_dir_cache), recursive directory     *)
(* hasher (hash_directories_recursively) and the revision-guarded track    *)
(* store (update_entity).                                                  *)
(*                                                                         *)
(* The table media_dir_cache is a function from the key                    *)
(* (collection_id, uri) to the list of rows stored under that key, each    *)
(* row holding digest and status.  The column row_updated_ms is written by *)
(* every statement and read by none; it is left out.                       *)
(***************************************************************************)
EXTENDS Integers, Sequences, FiniteSets, TLC

\* ---------------------------------------------------------------- bounds
MaxDigest == 2
MaxClock == 1
MaxRev == 2
MaxBatch == 2
MaxCollectedAt == 2
MaxResults == 2
MaxUpdates == 3

\* ------------------------------------------------------------- constants
Digests == 1..MaxDigest
Colls == {1, 2}
Root == <<"r">>
Sub == <<"r", "'">>
Paths == {Root, Sub}
Keys == {<<1, Root>>, <<1, Sub>>, <<2, Root>>}
Prefixes == {Root, Sub}
EntryStatus == {"Current", "Outdated", "Added", "Modified", "Orphaned"}
UpdateOutcome == {"Current", "Updated", "Inserted", "Skipped"}
None == "None"

VARIABLES cache, last, fs, scan, trail, tracks, aux, writers, clock, upd, procs,
          passes, store, rp, bulk, lib, dup, cm

scanVars == <<fs, scan, trail>>
trackVars == <<tracks, aux, writers, clock, upd>>
replaceVars == <<store, rp>>
dupVars == <<lib, dup>>
vars == <<cache, last, fs, scan, trail, tracks, aux, writers, clock, upd, procs,
          passes, store, rp, bulk, lib, dup, cm>>

\* ------------------------------------------------------------ SQL helpers
\* arg.replace('\'', "''")
RECURSIVE escape_single_quotes(_)
escape_single_quotes(arg) ==
    IF arg = <<>> THEN <<>>
    ELSE (IF Head(arg) = "'" THEN <<"'", "'">> ELSE <<Head(arg)>>)
         \o escape_single_quotes(Tail(arg))

\* The value SQLite reads from the body of a '...' literal: every doubled
\* quote stands for one quote; a single quote ends the literal.
RECURSIVE SqlLiteralValue(_)
SqlLiteralValue(body) ==
    IF body = <<>> THEN <<>>
    ELSE IF Head(body) = "'"
         THEN IF Len(body) >= 2 /\ body[2] = "'"
              THEN <<"'">> \o SqlLiteralValue(Tail(Tail(body)))
              ELSE <<>>
         ELSE <<Head(body)>> \o SqlLiteralValue(Tail(body))

\* substr(uri, 1, n)
substr(uri, n) == SubSeq(uri, 1, IF n < Len(uri) THEN n ELSE Len(uri))

\* substr(uri,1,{uri_prefix.len()})='{escape_single_quotes(uri_prefix)}'
UriPrefixFilter(uri, uri_prefix) ==
    substr(uri, Len(uri_prefix)) = SqlLiteralValue(escape_single_quotes(uri_prefix))

\* Rows of the table that satisfy a WHERE clause, as (key, index) pairs.
Matching(tbl, Where(_, _)) ==
    UNION {{<<k, i>> : i \in {j \in 1..Len(tbl[k]) : Where(k, tbl[k][j])}} : k \in Keys}

\* UPDATE ... SET ... WHERE ...: the table afterwards.
UpdateWhere(tbl, Where(_, _), Set(_)) ==
    [k \in Keys |->
        [i \in 1..Len(tbl[k]) |->
            IF Where(k, tbl[k][i]) THEN Set(tbl[k][i]) ELSE tbl[k][i]]]

\* DELETE ... WHERE ...: the table afterwards.
DeleteWhere(tbl, Where(_, _)) ==
    [k \in Keys |-> SelectSeq(tbl[k], LAMBDA row : ~Where(k, row))]

\* UNIQUE (collection_id, uri) of the table media_dir_cache.
UniqueViolation(tbl, collection_id, uri) == Len(tbl[<<collection_id, uri>>]) > 0

\* --------------------------------------------------- directory entry cache
\* UPDATE without the filter on the old status.
update_entries_status_any_old(tbl, collection_id, uri_prefix, old_status, new_status) ==
    LET Where(k, row) ==
            /\ k[1] = collection_id
            /\ UriPrefixFilter(k[2], uri_prefix)
    IN  [cache |-> UpdateWhere(tbl, Where, LAMBDA row : [row EXCEPT !.status = new_status]),
         rows |-> Cardinality(Matching(tbl, Where))]

media_dir_cache_update_entries_status(tbl, collection_id, uri_prefix, old_status, new_status) ==
    LET Where(k, row) ==
            /\ k[1] = collection_id
            /\ UriPrefixFilter(k[2], uri_prefix)
            /\ (old_status # None => row.status = old_status)
    IN  [cache |-> UpdateWhere(tbl, Where, LAMBDA row : [row EXCEPT !.status = new_status]),
         rows |-> Cardinality(Matching(tbl, Where))]

\* DELETE without the fixed filter on Orphaned.
delete_entries_any_status(tbl, collection_id, uri_prefix, status) ==
    LET Where(k, row) ==
            /\ k[1] = collection_id
            /\ UriPrefixFilter(k[2], uri_prefix)
            /\ (status # None => row.status = status)
    IN  [cache |-> DeleteWhere(tbl, Where),
         rows |-> Cardinality(Matching(tbl, Where))]

media_dir_cache_delete_entries(tbl, collection_id, uri_prefix, status) ==
    LET Where(k, row) ==
            /\ k[1] = collection_id
            /\ UriPrefixFilter(k[2], uri_prefix)
            /\ row.status = "Orphaned"
            /\ (status # None => row.status = status)
    IN  [cache |-> DeleteWhere(tbl, Where),
         rows |-> Cardinality(Matching(tbl, Where))]

\* The first statement without its filter on the status.
mark_current_any_status(tbl, collection_id, uri, digest) ==
    LET Where(k, row) ==
            /\ k = <<collection_id, uri>>
            /\ row.digest = digest
    IN  [cache |-> UpdateWhere(tbl, Where, LAMBDA row : [row EXCEPT !.status = "Current"]),
         rows |-> Cardinality(Matching(tbl, Where))]

\* First statement of update_entry_digest: same digest, Outdated or
\* Orphaned -> Current.
digest_mark_current(tbl, collection_id, uri, digest) ==
    LET Where(k, row) ==
            /\ k = <<collection_id, uri>>
            /\ row.digest = digest
            /\ (row.status = "Outdated" \/ row.status = "Orphaned")
    IN  [cache |-> UpdateWhere(tbl, Where, LAMBDA row : [row EXCEPT !.status = "Current"]),
         rows |-> Cardinality(Matching(tbl, Where))]

\* The second statement without its filter on the digest.
mark_modified_any_digest(tbl, collection_id, uri, digest) ==
    LET Where(k, row) == k = <<collection_id, uri>>
    IN  [cache |-> UpdateWhere(tbl, Where,
                     LAMBDA row : [digest |-> digest, status |-> "Modified"]),
         rows |-> Cardinality(Matching(tbl, Where))]

\* Second statement: different digest, any status -> Modified, new digest.
digest_mark_modified(tbl, collection_id, uri, digest) ==
    LET Where(k, row) ==
            /\ k = <<collection_id, uri>>
            /\ row.digest # digest
    IN  [cache |-> UpdateWhere(tbl, Where,
                     LAMBDA row : [digest |-> digest, status |-> "Modified"]),
         rows |-> Cardinality(Matching(tbl, Where))]

\* A plain INSERT into a table without the unique key.
insert_without_ignore(tbl, collection_id, uri, digest) ==
    [cache |-> [tbl EXCEPT ![<<collection_id, uri>>] =
                   Append(@, [digest |-> digest, status |-> "Added"])],
     rows |-> 1]

\* Third statement: INSERT OR IGNORE of (collection, uri, Added, digest).
digest_insert_or_ignore(tbl, collection_id, uri, digest) ==
    IF UniqueViolation(tbl, collection_id, uri)
    THEN [cache |-> tbl, rows |-> 0]
    ELSE [cache |-> [tbl EXCEPT ![<<collection_id, uri>>] =
                        Append(@, [digest |-> digest, status |-> "Added"])],
          rows |-> 1]

media_dir_cache_update_entry_digest(tbl, collection_id, uri, digest) ==
    LET s1 == digest_mark_current(tbl, collection_id, uri, digest)
        s2 == digest_mark_modified(tbl, collection_id, uri, digest)
        s3 == digest_insert_or_ignore(tbl, collection_id, uri, digest)
    IN  IF s1.rows > 0 THEN [cache |-> s1.cache, out |-> "Current"]
        ELSE IF s2.rows > 0 THEN [cache |-> s2.cache, out |-> "Updated"]
        ELSE IF s3.rows > 0 THEN [cache |-> s3.cache, out |-> "Inserted"]
        ELSE [cache |-> tbl, out |-> "Skipped"]

\* The UPDATE with a filter on the status as well, as in the first statement
\* of update_entry_digest.
reset_entry_status_if_outdated(tbl, collection_id, uri, digest) ==
    LET Where(k, row) ==
            /\ k = <<collection_id, uri>>
            /\ row.digest = digest
            /\ (row.status = "Outdated" \/ row.status = "Orphaned")
    IN  [cache |-> UpdateWhere(tbl, Where, LAMBDA row : [row EXCEPT !.status = "Current"]),
         rows |-> Cardinality(Matching(tbl, Where))]

media_dir_cache_reset_entry_status_to_current(tbl, collection_id, uri, digest) ==
    LET Where(k, row) ==
            /\ k = <<collection_id, uri>>
            /\ row.digest = digest
    IN  [cache |-> UpdateWhere(tbl, Where, LAMBDA row : [row EXCEPT !.status = "Current"]),
         rows |-> Cardinality(Matching(tbl, Where))]

\* ------------------------------------------------------------ initial state
EmptyCache == [k \in Keys |-> <<>>]

NoCall ==
    [op |-> None, coll |-> 0, uri |-> <<>>, digest |-> 0, status |-> None,
     out |-> None, rows |-> 0, pre |-> <<>>, changed |-> {}, removed |-> {},
     prevOut |-> None]

InitCache == cache = EmptyCache /\ last = NoCall

\* Keys whose rows differ between two tables, and the rows a call removed.
ChangedKeys(old, new) == {k \in Keys : old[k] # new[k]}

RemovedRows(old, new) ==
    UNION {{<<k, old[k][i]>> : i \in {j \in 1..Len(old[k]) :
                \A n \in 1..Len(new[k]) : new[k][n] # old[k][j]}} : k \in Keys}

\* ------------------------------------------ cache operations, one per call
UpdateEntriesStatus ==
    \E c \in Colls, p \in Prefixes, old \in {None, "Current", "Outdated"},
       new \in {"Outdated", "Orphaned"} :
        LET r == media_dir_cache_update_entries_status(cache, c, p, old, new)
        IN  /\ cache' = r.cache
            /\ last' = [NoCall EXCEPT !.op = "update_entries_status"]

DeleteEntries ==
    \E c \in Colls, p \in Prefixes, st \in {None, "Orphaned", "Outdated"} :
        LET r == media_dir_cache_delete_entries(cache, c, p, st)
        IN  /\ cache' = r.cache
            /\ last' = [NoCall EXCEPT !.op = "delete_entries", !.coll = c, !.uri = p,
                            !.status = st, !.rows = r.rows,
                            !.changed = ChangedKeys(cache, r.cache),
                            !.removed = RemovedRows(cache, r.cache)]

UpdateEntryDigest ==
    \E k \in Keys, d \in Digests :
        LET r == media_dir_cache_update_entry_digest(cache, k[1], k[2], d)
            again == last.op = "update_entry_digest" /\ last.coll = k[1]
                     /\ last.uri = k[2] /\ last.digest = d
        IN  /\ cache' = r.cache
            /\ last' = [NoCall EXCEPT !.op = "update_entry_digest", !.coll = k[1],
                            !.uri = k[2], !.digest = d, !.out = r.out,
                            !.pre = cache[k],
                            !.changed = ChangedKeys(cache, r.cache),
                            !.prevOut = IF again THEN last.out ELSE None]

ResetEntryStatusToCurrent ==
    \E k \in Keys, d \in Digests :
        LET r == media_dir_cache_reset_entry_status_to_current(cache, k[1], k[2], d)
        IN  /\ cache' = r.cache
            /\ last' = [NoCall EXCEPT !.op = "reset_entry_status_to_current",
                            !.coll = k[1], !.uri = k[2], !.digest = d,
                            !.rows = r.rows, !.pre = cache[k],
                            !.out = IF r.rows > 0 THEN "true" ELSE "false",
                            !.changed = ChangedKeys(cache, r.cache)]

\* -------------------------------------------- recursive directory hasher
\* fs[p] is the content digest of directory p on disk, 0 when p does not
\* exist.  A directory exists only inside an existing parent.
FsOk(f) == f[Sub] # 0 => f[Root] # 0

IsUnder(root, p) == Len(p) >= Len(root) /\ SubSeq(p, 1, Len(root)) = root

RECURSIVE PostOrder(_)
PostOrder(S) ==
    IF S = {} THEN <<>>
    ELSE LET p == CHOOSE x \in S : \A y \in S : Len(y) <= Len(x)
         IN  <<p>> \o PostOrder(S \ {p})

\* digest::hash_directories: the directories below root_dir_path, children
\* before their parent, down to max_depth.  The Option<usize> max_depth is
\* the set of its values: {} for None, {n} for Some(n).
hash_directories(f, root, max_depth) ==
    PostOrder({p \in Paths :
        /\ IsUnder(root, p)
        /\ f[p] # 0
        /\ \A n \in max_depth : Len(p) - Len(root) <= n})

media_tracker_mark_current_directories_outdated(tbl, collection_id, uri_prefix) ==
    media_dir_cache_update_entries_status(tbl, collection_id, uri_prefix, "Current", "Outdated")

media_tracker_mark_outdated_directories_orphaned(tbl, collection_id, uri_prefix) ==
    media_dir_cache_update_entries_status(tbl, collection_id, uri_prefix, "Outdated", "Orphaned")

media_tracker_update_directory_digest(tbl, collection_id, uri, digest) ==
    media_dir_cache_update_entry_digest(tbl, collection_id, uri, digest)

Summary == [current |-> 0, added |-> 0, modified |-> 0, orphaned |-> 0, skipped |-> 0]

Tally(summary, out) ==
    CASE out = "Current" -> [summary EXCEPT !.current = @ + 1]
      [] out = "Inserted" -> [summary EXCEPT !.added = @ + 1]
      [] out = "Updated" -> [summary EXCEPT !.modified = @ + 1]
      [] out = "Skipped" -> [summary EXCEPT !.skipped = @ + 1]

ScanRoots == {<<1, Root>>, <<1, Sub>>}

NoVisit == [p \in Paths |-> [digest |-> 0, out |-> None]]

IdleScan ==
    [pc |-> "idle", coll |-> 0, root |-> <<>>, max_depth |-> {},
     outdated_count |-> 0, summary |-> Summary, todo |-> <<>>,
     visited |-> NoVisit, completion |-> None, orphaned0 |-> {},
     confirmed |-> FALSE, before |-> EmptyCache]

\* trail follows the passes over /lib (Root) since the cache was empty, as
\* long as they are full passes that end Finished and treat /lib/a (Sub)
\* as the scenario does: present with a digest D1, present with D1 again,
\* present with another digest, absent.
InitScan ==
    /\ fs = [p \in Paths |-> IF p = Root THEN 1 ELSE 0]
    /\ scan = IdleScan
    /\ trail = [on |-> TRUE, seq |-> <<>>]

OrphanedKeys(tbl) ==
    {k \in Keys : \E i \in 1..Len(tbl[k]) : tbl[k][i].status = "Orphaned"}

TrailStep(seq, d) ==
    CASE Len(seq) = 0 -> d # 0
      [] Len(seq) = 1 -> d = seq[1].d
      [] Len(seq) = 2 -> d # 0 /\ d # seq[1].d
      [] Len(seq) = 3 -> d = 0
      [] OTHER -> FALSE

\* Lines 61-71: mark the Current entries below the root Outdated, then
\* start the walk.
StartPass ==
    /\ scan.pc \in {"idle", "done"}
    /\ \E k \in ScanRoots, max_depth \in {{}, {0}} :
        LET r == media_tracker_mark_current_directories_outdated(cache, k[1], k[2])
        IN  /\ cache' = r.cache
            /\ scan' = [IdleScan EXCEPT !.pc = "walking", !.coll = k[1], !.root = k[2],
                            !.max_depth = max_depth, !.outdated_count = r.rows,
                            !.todo = hash_directories(fs, k[2], max_depth),
                            !.orphaned0 = OrphanedKeys(cache),
                            !.confirmed = scan.confirmed,
                            !.before = cache]
            /\ trail' = IF k = <<1, Root>> /\ max_depth = {}
                        THEN trail ELSE [on |-> FALSE, seq |-> <<>>]
    /\ UNCHANGED <<last, fs>>

\* Lines 77-110: the callback of one finished directory.
VisitDirectory ==
    /\ scan.pc = "walking"
    /\ scan.todo # <<>>
    /\ LET path == Head(scan.todo)
           r == media_tracker_update_directory_digest(cache, scan.coll, path, fs[path])
       IN  /\ cache' = r.cache
           /\ scan' = [scan EXCEPT !.todo = Tail(@),
                           !.summary = Tally(@, r.out),
                           !.visited[path] = [digest |-> fs[path], out |-> r.out]]
    /\ UNCHANGED <<last, fs, trail>>

\* An abort that runs the reconciliation of a finished pass.
AbortPassReconciling ==
    /\ scan.pc = "walking"
    /\ scan.todo # <<>>
    /\ LET r == media_tracker_mark_outdated_directories_orphaned(cache, scan.coll, scan.root)
       IN  /\ cache' = r.cache
           /\ scan' = [scan EXCEPT !.pc = "done", !.completion = "Aborted",
                           !.summary.orphaned = r.rows, !.confirmed = FALSE]
    /\ trail' = [on |-> FALSE, seq |-> <<>>]
    /\ UNCHANGED <<last, fs>>

\* Lines 135-138: the abort flag was seen before the next directory.
AbortPass ==
    /\ scan.pc = "walking"
    /\ scan.todo # <<>>
    /\ scan' = [scan EXCEPT !.pc = "done", !.completion = "Aborted", !.confirmed = FALSE]
    /\ trail' = [on |-> FALSE, seq |-> <<>>]
    /\ UNCHANGED <<cache, last, fs>>

\* A failure that takes back what the pass wrote to the cache.
FailPassRollingBack ==
    /\ scan.pc = "walking"
    /\ scan' = [scan EXCEPT !.pc = "done", !.completion = "Error", !.confirmed = FALSE]
    /\ cache' = scan.before
    /\ trail' = [on |-> FALSE, seq |-> <<>>]
    /\ UNCHANGED <<last, fs>>

\* Lines 91, 116-117, 140: reading a directory or a digest update failed.
FailPass ==
    /\ scan.pc = "walking"
    /\ scan' = [scan EXCEPT !.pc = "done", !.completion = "Error", !.confirmed = FALSE]
    /\ trail' = [on |-> FALSE, seq |-> <<>>]
    /\ UNCHANGED <<cache, last, fs>>

\* Lines 124-134: the walk finished; the entries still Outdated become
\* Orphaned.  debug_assert!(summary.orphaned <= outdated_count) panics in a
\* debug build and is compiled out of a release build.
FinishPass ==
    /\ scan.pc = "walking"
    /\ scan.todo = <<>>
    /\ fs[scan.root] # 0
    /\ LET r == media_tracker_mark_outdated_directories_orphaned(cache, scan.coll, scan.root)
           sub == scan.visited[Sub]
           key == <<1, Sub>>
       IN  /\ cache' = r.cache
           /\ \E completion \in {"Finished", "Panicked"} :
                /\ completion = "Panicked" => r.rows > scan.outdated_count
                /\ scan' = [scan EXCEPT !.pc = "done", !.completion = completion,
                                !.summary.orphaned = r.rows, !.confirmed = FALSE]
                /\ trail' = IF trail.on /\ completion = "Finished"
                               /\ TrailStep(trail.seq, sub.digest)
                            THEN [trail EXCEPT !.seq = Append(@,
                                    [d |-> sub.digest, out |-> sub.out,
                                     conf |-> scan.confirmed,
                                     status |-> IF r.cache[key] = <<>> THEN None
                                                ELSE r.cache[key][1].status])]
                            ELSE [on |-> FALSE, seq |-> <<>>]
    /\ UNCHANGED <<last, fs>>

\* Between passes directories are created, changed and deleted on disk.
FsChange ==
    /\ scan.pc \in {"idle", "done"}
    /\ \E f \in [Paths -> 0..MaxDigest] :
        /\ FsOk(f)
        /\ f # fs
        /\ fs' = f
    /\ scan' = [IdleScan EXCEPT !.confirmed = scan.confirmed]
    /\ UNCHANGED <<cache, last, trail>>

\* Between passes the importer confirms a directory it has processed.
ConfirmDirectory ==
    /\ scan.pc \in {"idle", "done"}
    /\ \E k \in ScanRoots, d \in Digests :
        LET r == media_dir_cache_reset_entry_status_to_current(cache, k[1], k[2], d)
        IN  /\ r.rows > 0
            /\ cache' = r.cache
            /\ scan' = [IdleScan EXCEPT !.confirmed = scan.confirmed \/ k = <<1, Sub>>]
    /\ UNCHANGED <<last, fs, trail>>

\* ------------------------------------------------------ track entity store
Uids == {1, 2}
Writers == {1, 2}
Bodies == {"b0", "b1", "b2"}
Revisions == [ordinal : 0..MaxRev, ts : 0..MaxClock]

\* EntityRevision::initial() and EntityRevision::next() at the given instant.
RevInitial(now) == [ordinal |-> 0, ts |-> now]

RevNext(rev, now) == [ordinal |-> rev.ordinal + 1, ts |-> now]

\* A row of tbl_track (uid, rev_no, rev_ts, ser_blob); "unused" marks a uid
\* that was never generated, "deleted" one whose row was deleted.
NoRow == [state |-> "unused", rev |-> RevInitial(0), body |-> None]

\* TrackRepositoryHelper: the hook before an update or removal drops the
\* index rows of the entity, the hook after an update or insert writes the
\* index rows of the new body.
before_entity_updated_or_removed(auxtbl, uid) == [auxtbl EXCEPT ![uid] = None]

after_entity_updated(auxtbl, uid, body) == [auxtbl EXCEPT ![uid] = body]

\* UPDATE tbl_track SET rev, blob WHERE uid: the revision filter dropped.
update_entity_unguarded(tbl, auxtbl, uid, prev_revision, body, now) ==
    LET next_revision == RevNext(prev_revision, now)
    IN  IF tbl[uid].state # "stored"
        THEN [tracks |-> tbl, aux |-> auxtbl, found |-> FALSE, ok |-> FALSE, next |-> prev_revision]
        ELSE [tracks |-> [tbl EXCEPT ![uid].rev = next_revision, ![uid].body = body],
              aux |-> after_entity_updated(auxtbl, uid, body),
              found |-> TRUE, ok |-> TRUE, next |-> next_revision]

\* UPDATE that binds the previous revision instead of the next one.
update_entity_prev_revision(tbl, auxtbl, uid, prev_revision, body, now) ==
    LET rows_affected ==
            IF tbl[uid].state = "stored" /\ tbl[uid].rev = prev_revision THEN 1 ELSE 0
    IN  IF tbl[uid].state # "stored"
        THEN [tracks |-> tbl, aux |-> auxtbl, found |-> FALSE, ok |-> FALSE, next |-> prev_revision]
        ELSE IF rows_affected < 1
        THEN [tracks |-> tbl, aux |-> before_entity_updated_or_removed(auxtbl, uid),
              found |-> TRUE, ok |-> FALSE, next |-> prev_revision]
        ELSE [tracks |-> [tbl EXCEPT ![uid].body = body],
              aux |-> after_entity_updated(auxtbl, uid, body),
              found |-> TRUE, ok |-> TRUE, next |-> RevNext(prev_revision, now)]

\* UPDATE whose filter compares rev_no but not rev_ts.
update_entity_ordinal_only(tbl, auxtbl, uid, prev_revision, body, now) ==
    LET next_revision == RevNext(prev_revision, now)
        rows_affected ==
            IF tbl[uid].state = "stored" /\ tbl[uid].rev.ordinal = prev_revision.ordinal
            THEN 1 ELSE 0
    IN  IF tbl[uid].state # "stored"
        THEN [tracks |-> tbl, aux |-> auxtbl, found |-> FALSE, ok |-> FALSE, next |-> prev_revision]
        ELSE IF rows_affected < 1
        THEN [tracks |-> tbl, aux |-> before_entity_updated_or_removed(auxtbl, uid),
              found |-> TRUE, ok |-> FALSE, next |-> prev_revision]
        ELSE [tracks |-> [tbl EXCEPT ![uid].rev = next_revision, ![uid].body = body],
              aux |-> after_entity_updated(auxtbl, uid, body),
              found |-> TRUE, ok |-> TRUE, next |-> next_revision]

\* update_entity: the hook, then UPDATE ... WHERE uid = ? AND rev_no = ? AND
\* rev_ts = ?, then the second hook when a row was affected.  The result
\* (prev_revision, Some(next_revision)) is ok with next; (prev_revision, None)
\* is not ok.
update_entity(tbl, auxtbl, uid, prev_revision, body, now) ==
    LET next_revision == RevNext(prev_revision, now)
        rows_affected ==
            IF tbl[uid].state = "stored" /\ tbl[uid].rev = prev_revision THEN 1 ELSE 0
    IN  IF tbl[uid].state # "stored"
        THEN [tracks |-> tbl, aux |-> auxtbl, found |-> FALSE, ok |-> FALSE, next |-> prev_revision]
        ELSE IF rows_affected < 1
        THEN [tracks |-> tbl, aux |-> before_entity_updated_or_removed(auxtbl, uid),
              found |-> TRUE, ok |-> FALSE, next |-> prev_revision]
        ELSE [tracks |-> [tbl EXCEPT ![uid].rev = next_revision, ![uid].body = body],
              aux |-> after_entity_updated(auxtbl, uid, body),
              found |-> TRUE, ok |-> TRUE, next |-> next_revision]

NoUpdate ==
    [uid |-> 0, rev |-> RevInitial(0), body |-> None, pre |-> NoRow,
     ok |-> FALSE, next |-> RevInitial(0), by |-> 0]

IdleWriter ==
    [pc |-> "idle", uid |-> 0, rev |-> RevInitial(0), body |-> None,
     ok |-> FALSE]

InitTrack ==
    /\ tracks = [u \in Uids |-> NoRow]
    /\ aux = [u \in Uids |-> None]
    /\ writers = [w \in Writers |-> IdleWriter]
    /\ clock = 0
    /\ upd = NoUpdate

Quiet == \A w \in Writers : writers[w].pc = "idle"

\* The history of the latest update_entity call; it is forgotten when the
\* row it was about is deleted.
Recorded(r, uid, rev, body, by) ==
    [uid |-> uid, rev |-> rev, body |-> body, pre |-> tracks[uid],
     ok |-> r.ok, next |-> r.next, by |-> by]

Tick ==
    /\ clock < MaxClock
    /\ clock' = clock + 1
    /\ UNCHANGED <<tracks, aux, writers, upd>>

\* create_entity: a fresh uid with the initial revision.
CreateTrack ==
    /\ Quiet
    /\ \E u \in Uids :
        /\ tracks[u].state = "unused"
        /\ \A v \in Uids : v < u => tracks[v].state # "unused"
        /\ tracks' = [tracks EXCEPT ![u] =
                [state |-> "stored", rev |-> RevInitial(clock), body |-> "b0"]]
        /\ aux' = [aux EXCEPT ![u] = "b0"]
    /\ UNCHANGED <<writers, clock, upd>>

\* delete_entity
DeleteTrack ==
    /\ Quiet
    /\ \E u \in Uids :
        /\ tracks[u].state = "stored"
        /\ tracks' = [tracks EXCEPT ![u] = [NoRow EXCEPT !.state = "deleted"]]
        /\ aux' = before_entity_updated_or_removed(aux, u)
        /\ upd' = IF upd.uid = u THEN NoUpdate ELSE upd
    /\ UNCHANGED <<writers, clock>>

\* on_update_track: a request carries any uid, revision and body.
UpdateTrack ==
    /\ Quiet
    /\ \E u \in Uids, rev \in Revisions, body \in {"b0"} :
        /\ rev.ordinal < MaxRev
        /\ LET r == update_entity(tracks, aux, u, rev, body, clock)
           IN  /\ tracks' = r.tracks
               /\ aux' = r.aux
               /\ upd' = Recorded(r, u, rev, body, 0)
    /\ UNCHANGED <<writers, clock>>

\* A writer loads an entity and prepares its own payload.
WriterRead(w) ==
    /\ writers[w].pc = "idle"
    /\ \E u \in Uids :
        /\ tracks[u].state = "stored"
        /\ tracks[u].rev.ordinal < MaxRev
        /\ writers' = [writers EXCEPT ![w] =
                [IdleWriter EXCEPT !.pc = "read", !.uid = u, !.rev = tracks[u].rev,
                                   !.body = IF w = 1 THEN "b1" ELSE "b2"]]
    /\ UNCHANGED <<tracks, aux, clock, upd>>

\* The writer sends its update with the revision it has read.
WriterUpdate(w) ==
    /\ writers[w].pc = "read"
    /\ LET me == writers[w]
           r == update_entity(tracks, aux, me.uid, me.rev, me.body, clock)
       IN  /\ tracks' = r.tracks
           /\ aux' = r.aux
           /\ upd' = Recorded(r, me.uid, me.rev, me.body, w)
           /\ writers' = [writers EXCEPT ![w].pc = "done", ![w].ok = r.ok]
    /\ UNCHANGED clock

WriterReset ==
    /\ \A w \in Writers : writers[w].pc # "read"
    /\ \E w \in Writers : writers[w].pc = "done"
    /\ writers' = [w \in Writers |-> IdleWriter]
    /\ UNCHANGED <<tracks, aux, clock, upd>>

\* ------------------------------- concurrent callers of update_entry_digest
Procs == {1, 2}
ConcKeys == {<<1, Root>>, <<1, Sub>>}

IdleProc == [pc |-> "idle", key |-> <<1, Root>>, digest |-> 0, out |-> None]

InitConc == procs = [p \in Procs |-> IdleProc]

\* A caller enters update_entry_digest(collection, uri, digest).
CallUpdateEntryDigest(p) ==
    /\ procs[p].pc \in {"idle", "done"}
    /\ \E k \in ConcKeys, d \in Digests :
        procs' = [procs EXCEPT ![p] = [pc |-> "s1", key |-> k, digest |-> d, out |-> None]]
    /\ UNCHANGED cache

\* Lines 96-118
StmtMarkCurrent(p) ==
    /\ procs[p].pc = "s1"
    /\ LET me == procs[p]
           r == digest_mark_current(cache, me.key[1], me.key[2], me.digest)
       IN  /\ cache' = r.cache
           /\ procs' = IF r.rows > 0
                       THEN [procs EXCEPT ![p].pc = "done", ![p].out = "Current"]
                       ELSE [procs EXCEPT ![p].pc = "s2"]

\* Lines 120-133
StmtMarkModified(p) ==
    /\ procs[p].pc = "s2"
    /\ LET me == procs[p]
           r == digest_mark_modified(cache, me.key[1], me.key[2], me.digest)
       IN  /\ cache' = r.cache
           /\ procs' = IF r.rows > 0
                       THEN [procs EXCEPT ![p].pc = "done", ![p].out = "Updated"]
                       ELSE [procs EXCEPT ![p].pc = "s3"]

\* Lines 135-145
StmtInsertOrIgnore(p) ==
    /\ procs[p].pc = "s3"
    /\ LET me == procs[p]
           r == digest_insert_or_ignore(cache, me.key[1], me.key[2], me.digest)
       IN  /\ cache' = r.cache
           /\ procs' = [procs EXCEPT ![p].pc = "done",
                           ![p].out = IF r.rows > 0 THEN "Inserted" ELSE "Skipped"]

\* Another writer of the cache: entries are marked Outdated or Orphaned, and
\* orphaned entries are purged, while the callers run.
ConcStatusWriter ==
    /\ \E k \in ConcKeys, new \in {"Outdated", "Orphaned"} :
        cache' = media_dir_cache_update_entries_status(cache, k[1], k[2],
                    IF new = "Outdated" THEN "Current" ELSE "Outdated", new).cache
    /\ cache' # cache
    /\ UNCHANGED procs

ConcPurge ==
    /\ \E k \in ConcKeys :
        cache' = media_dir_cache_delete_entries(cache, k[1], k[2], None).cache
    /\ cache' # cache
    /\ UNCHANGED procs

\* ------------------------------- concurrent scan passes over the same cache
\* Two callers of hash_directories_recursively share the cache; each step of
\* a pass (the marking at its start, one directory callback, the
\* reconciliation at its end) is one statement or call against the store.
IdlePass ==
    [pc |-> "idle", root |-> <<>>, outdated_count |-> 0, todo |-> <<>>,
     visited |-> {}, completion |-> None, summary |-> Summary, orphaned |-> {}]

InitPasses == passes = [p \in Procs |-> IdlePass]

NoPassWalking == \A p \in Procs : passes[p].pc # "walking"

\* Lines 61-71
PassStart(p) ==
    /\ passes[p].pc \in {"idle", "done"}
    /\ \E k \in ScanRoots :
        LET r == media_tracker_mark_current_directories_outdated(cache, k[1], k[2])
        IN  /\ cache' = r.cache
            /\ passes' = [passes EXCEPT ![p] =
                    [IdlePass EXCEPT !.pc = "walking", !.root = k[2],
                        !.outdated_count = r.rows,
                        !.todo = hash_directories(fs, k[2], {})]]
    /\ UNCHANGED fs

\* Lines 77-110
PassVisit(p) ==
    /\ passes[p].pc = "walking"
    /\ passes[p].todo # <<>>
    /\ LET path == Head(passes[p].todo)
           r == media_tracker_update_directory_digest(cache, 1, path, fs[path])
       IN  /\ cache' = r.cache
           /\ passes' = [passes EXCEPT ![p].todo = Tail(@),
                             ![p].summary = Tally(@, r.out),
                             ![p].visited = @ \cup {path}]
    /\ UNCHANGED fs

\* Lines 135-138
PassAbort(p) ==
    /\ passes[p].pc = "walking"
    /\ passes[p].todo # <<>>
    /\ passes' = [passes EXCEPT ![p].pc = "done", ![p].completion = "Aborted"]
    /\ UNCHANGED <<cache, fs>>

\* Lines 124-134
PassFinish(p) ==
    /\ passes[p].pc = "walking"
    /\ passes[p].todo = <<>>
    /\ LET r == media_tracker_mark_outdated_directories_orphaned(cache, 1, passes[p].root)
       IN  /\ cache' = r.cache
           /\ \E completion \in {"Finished", "Panicked"} :
                /\ completion = "Panicked" => r.rows > passes[p].outdated_count
                /\ passes' = [passes EXCEPT ![p].pc = "done",
                                  ![p].completion = completion,
                                  ![p].summary.orphaned = r.rows,
                                  ![p].orphaned = {k[2] : k \in ChangedKeys(cache, r.cache)}]
    /\ UNCHANGED fs

\* While no pass is walking, directories are created, changed and deleted.
PassFsChange ==
    /\ NoPassWalking
    /\ \E f \in [Paths -> 0..MaxDigest] :
        /\ FsOk(f)
        /\ f[Root] # 0
        /\ f # fs
        /\ fs' = f
    /\ passes' = [p \in Procs |-> IdlePass]
    /\ UNCHANGED cache

\* While no pass is walking, the importer confirms a processed directory.
PassConfirmDirectory ==
    /\ NoPassWalking
    /\ \E k \in ScanRoots, d \in Digests :
        LET r == media_dir_cache_reset_entry_status_to_current(cache, k[1], k[2], d)
        IN  /\ r.rows > 0
            /\ cache' = r.cache
    /\ passes' = [p \in Procs |-> IdlePass]
    /\ UNCHANGED fs

\* ------------------------------------------------ replace of a single track
\* The track repository behind Repo::replace_track: one row per entity with
\* its header (uid, rev), the collection it belongs to (0 for none), its
\* media URI and the body data (format, version, blob).  The optional
\* collection_uid is the set of its values: {} for None, {c} for Some(c).
RUids == {1, 2}
MediaUris == {"x.mp3", "y.mp3"}
Scopes == {{}, {1}}
BodyData == {<<"json", 1, "b0">>, <<"json", 1, "b1">>, <<"json", 2, "b0">>,
             <<"cbor", 2, "b0">>}
ReplaceMode == {"CreateOnly", "UpdateOnly", "UpdateOrCreate"}
ReplaceOutcome ==
    {"AmbiguousMediaUri", "IncompatibleFormat", "IncompatibleVersion",
     "NotCreated", "Unchanged", "Created", "Updated"}

NoData == <<"", 0, "">>
NoEntity == [stored |-> FALSE, rev |-> 0, coll |-> 0, uri |-> "", data |-> NoData]

\* Repo::locate_tracks / locate_tracks_in_collection with
\* StringPredicate::Equals(media_uri).
locate_tracks(tbl, collection_uid, media_uri) ==
    {u \in RUids : /\ tbl[u].stored
                   /\ tbl[u].uri = media_uri
                   /\ \A c \in collection_uid : tbl[u].coll = c}

\* Repo::insert_track
insert_track(tbl, collection_uid, uid, rev, media_uri, body_data) ==
    [tbl EXCEPT ![uid] =
        [stored |-> TRUE, rev |-> rev,
         coll |-> IF collection_uid = {} THEN 0 ELSE CHOOSE c \in collection_uid : TRUE,
         uri |-> media_uri, data |-> body_data]]

\* Repo::update_track: NotFound, Current(existing revision) or
\* Updated(new revision); the revision check and the write are one step.
update_track(tbl, uid, rev, body_data) ==
    IF ~tbl[uid].stored
    THEN [tbl |-> tbl, res |-> "NotFound", rev |-> 0]
    ELSE IF tbl[uid].rev # rev
    THEN [tbl |-> tbl, res |-> "Current", rev |-> tbl[uid].rev]
    ELSE [tbl |-> [tbl EXCEPT ![uid].rev = rev + 1, ![uid].data = body_data],
          res |-> "Updated", rev |-> rev + 1]

\* Repo::delete_track
delete_track(tbl, uid) == [tbl EXCEPT ![uid] = NoEntity]

\* EntityHeader::initial_random(): a uid that no stored entity has.
initial_random(tbl) == CHOOSE u \in RUids : ~tbl[u].stored

\* The match of replace_track has no arm for the CreateOnly mode of the web
\* layer; without a located entity that mode yields NotCreated.
CreateOnlyOutcome == "NotCreated"

Located(tbl, next, out, n, uid, rev) ==
    [tbl |-> tbl, next |-> next, out |-> out, n |-> n, uid |-> uid, rev |-> rev]

\* replace_track that writes the proposed body data before comparing it.
replace_track_located_writing(tbl, collection_uid, media_uri, mode, body_data) ==
    LET located_tracks == locate_tracks(tbl, collection_uid, media_uri)
        n == Cardinality(located_tracks)
        written == [u \in RUids |->
                        IF u \in located_tracks
                        THEN [tbl[u] EXCEPT !.rev = @ + 1, !.data = body_data]
                        ELSE tbl[u]]
    IN  IF n > 1
        THEN Located(written, "done", "AmbiguousMediaUri", n, 0, 0)
        ELSE IF n = 1
        THEN LET uid == CHOOSE u \in located_tracks : TRUE
                 entity == tbl[uid]
             IN  IF entity.data[1] # body_data[1]
                 THEN Located(written, "done", "IncompatibleFormat", n, uid, entity.rev)
                 ELSE IF entity.data[2] # body_data[2]
                 THEN Located(written, "done", "IncompatibleVersion", n, uid, entity.rev)
                 ELSE IF entity.data[3] = body_data[3]
                 THEN Located(written, "done", "Unchanged", n, uid, entity.rev)
                 ELSE Located(tbl, "update", None, n, uid, entity.rev)
        ELSE CASE mode = "UpdateOnly" -> Located(tbl, "done", "NotCreated", n, 0, 0)
               [] mode = "CreateOnly" -> Located(tbl, "done", CreateOnlyOutcome, n, 0, 0)
               [] mode = "UpdateOrCreate" -> Located(tbl, "insert", None, n, 0, 0)

\* replace_track in which UpdateOnly creates the missing entity as well.
replace_track_located_creating(tbl, collection_uid, media_uri, mode, body_data) ==
    LET located_tracks == locate_tracks(tbl, collection_uid, media_uri)
        n == Cardinality(located_tracks)
    IN  IF n > 1
        THEN Located(tbl, "done", "AmbiguousMediaUri", n, 0, 0)
        ELSE IF n = 1
        THEN LET uid == CHOOSE u \in located_tracks : TRUE
                 entity == tbl[uid]
             IN  IF entity.data[1] # body_data[1]
                 THEN Located(tbl, "done", "IncompatibleFormat", n, uid, entity.rev)
                 ELSE IF entity.data[2] # body_data[2]
                 THEN Located(tbl, "done", "IncompatibleVersion", n, uid, entity.rev)
                 ELSE IF entity.data[3] = body_data[3]
                 THEN Located(tbl, "done", "Unchanged", n, uid, entity.rev)
                 ELSE Located(tbl, "update", None, n, uid, entity.rev)
        ELSE CASE mode = "UpdateOnly" -> Located(tbl, "insert", None, n, 0, 0)
               [] mode = "CreateOnly" -> Located(tbl, "done", CreateOnlyOutcome, n, 0, 0)
               [] mode = "UpdateOrCreate" -> Located(tbl, "insert", None, n, 0, 0)

\* Lines 249-301 and 321-325 of replace_track: locate the entities at the
\* media URI and decide.  next is "done" when the outcome is returned at
\* once, "update" and "insert" when a second call against the repository
\* follows.  tbl is the repository after this part.
replace_track_located(tbl, collection_uid, media_uri, mode, body_data) ==
    LET located_tracks == locate_tracks(tbl, collection_uid, media_uri)
        n == Cardinality(located_tracks)
    IN  IF n > 1
        THEN Located(tbl, "done", "AmbiguousMediaUri", n, 0, 0)
        ELSE IF n = 1
        THEN LET uid == CHOOSE u \in located_tracks : TRUE
                 entity == tbl[uid]
             IN  IF entity.data[1] # body_data[1]
                 THEN Located(tbl, "done", "IncompatibleFormat", n, uid, entity.rev)
                 ELSE IF entity.data[2] # body_data[2]
                 THEN Located(tbl, "done", "IncompatibleVersion", n, uid, entity.rev)
                 ELSE IF entity.data[3] = body_data[3]
                 THEN Located(tbl, "done", "Unchanged", n, uid, entity.rev)
                 ELSE Located(tbl, "update", None, n, uid, entity.rev)
        ELSE CASE mode = "UpdateOnly" -> Located(tbl, "done", "NotCreated", n, 0, 0)
               [] mode = "CreateOnly" -> Located(tbl, "done", CreateOnlyOutcome, n, 0, 0)
               [] mode = "UpdateOrCreate" -> Located(tbl, "insert", None, n, 0, 0)

\* replace_track that reports Updated whatever update_track returned.
replace_track_updated_always(tbl, uid, rev, body_data) ==
    LET r == update_track(tbl, uid, rev, body_data)
    IN  [tbl |-> r.tbl, out |-> "Updated", uid |-> uid, rev |-> r.rev]

\* Lines 302-320 of replace_track: update the located entity; NotFound and
\* Current bail out with an error, which is no ReplaceOutcome.
replace_track_updated(tbl, uid, rev, body_data) ==
    LET r == update_track(tbl, uid, rev, body_data)
    IN  CASE r.res = "NotFound" -> [tbl |-> r.tbl, out |-> "Error", uid |-> uid, rev |-> rev]
          [] r.res = "Current" -> [tbl |-> r.tbl, out |-> "Error", uid |-> uid, rev |-> rev]
          [] r.res = "Updated" -> [tbl |-> r.tbl, out |-> "Updated", uid |-> uid, rev |-> r.rev]

\* Lines 326-329 of replace_track: insert under a fresh header.
replace_track_created(tbl, collection_uid, media_uri, body_data) ==
    LET uid == initial_random(tbl)
    IN  [tbl |-> insert_track(tbl, collection_uid, uid, 0, media_uri, body_data),
         out |-> "Created", uid |-> uid, rev |-> 0]

IdleReplace ==
    [pc |-> "idle", collection_uid |-> {}, media_uri |-> "", mode |-> "",
     body_data |-> NoData, out |-> None, n |-> 0,
     uid |-> 0, rev |-> 0, repeated |-> FALSE]

InitReplace ==
    /\ store = [u \in RUids |-> NoEntity]
    /\ rp = IdleReplace

\* A client calls replace_track; the located entities are read and the
\* outcome is decided unless an update or an insert has to follow.
ReplaceTrackLocate ==
    /\ rp.pc \in {"idle", "done"}
    /\ \A u \in RUids : store[u].rev < MaxRev
    /\ \E collection_uid \in Scopes, mode \in ReplaceMode, body_data \in BodyData :
        LET media_uri == "x.mp3"
            r == replace_track_located(store, collection_uid, media_uri, mode, body_data)
        IN  /\ store' = r.tbl
            /\ rp' = [pc |-> r.next, collection_uid |-> collection_uid,
                      media_uri |-> media_uri, mode |-> mode, body_data |-> body_data,
                      out |-> r.out, n |-> r.n, uid |-> r.uid, rev |-> r.rev,
                      repeated |-> /\ rp.out = "Unchanged"
                                   /\ r.out = "Unchanged"
                                   /\ rp.collection_uid = collection_uid
                                   /\ rp.body_data = body_data]

ReplaceTrackUpdate ==
    /\ rp.pc = "update"
    /\ LET r == replace_track_updated(store, rp.uid, rp.rev, rp.body_data)
       IN  /\ store' = r.tbl
           /\ rp' = [rp EXCEPT !.pc = "done", !.out = r.out, !.uid = r.uid, !.rev = r.rev]

ReplaceTrackInsert ==
    /\ rp.pc = "insert"
    /\ \E u \in RUids : ~store[u].stored
    /\ LET r == replace_track_created(store, rp.collection_uid, rp.media_uri, rp.body_data)
       IN  /\ store' = r.tbl
           /\ rp' = [rp EXCEPT !.pc = "done", !.out = r.out, !.uid = r.uid, !.rev = r.rev]

\* Other clients of the repository insert, update and delete tracks, also
\* between the calls of a running replace_track.  rp keeps the result of a
\* finished replace_track until the repository changes again.
Forgotten(r) == IF r.pc = "done" THEN IdleReplace ELSE r

StoreInsert ==
    /\ \E u \in RUids : ~store[u].stored
    /\ \E collection_uid \in Scopes, media_uri \in MediaUris, body_data \in BodyData :
        \* the payload of another file plays no part in a replace of x.mp3
        /\ media_uri # "x.mp3" => body_data = <<"json", 1, "b0">>
        /\ store' = insert_track(store, collection_uid, initial_random(store), 0,
                                 media_uri, body_data)
    /\ rp' = Forgotten(rp)

StoreUpdate ==
    /\ \E u \in RUids, body_data \in BodyData :
        /\ store[u].stored
        /\ store[u].uri = "x.mp3"
        /\ store[u].rev < MaxRev
        /\ store[u].data # body_data
        /\ store' = update_track(store, u, store[u].rev, body_data).tbl
    /\ rp' = Forgotten(rp)

StoreDelete ==
    /\ \E u \in RUids :
        /\ store[u].stored
        /\ store' = delete_track(store, u)
    /\ rp' = Forgotten(rp)

\* --------------------------------------------------- bulk replace of tracks
\* replace_entities of the track repository: tracks and aux are tbl_track
\* and the index rows as above; a track body names its media source, and the
\* index rows of a track carry that URI.
TrackUri(body) == IF body = "b2" THEN "y.mp3" ELSE "x.mp3"

\* A stored blob that SerializedEntity::deserialize rejects.
Undecodable == "undecodable"

Replacements ==
    {[uri |-> "x.mp3", track |-> "b0"], [uri |-> "x.mp3", track |-> "b1"],
     [uri |-> "y.mp3", track |-> "b2"]}

Batches == UNION {[1..n -> Replacements] : n \in 1..MaxBatch}

\* locate_entities with StringPredicate::Equals(uri) and no collection: the
\* rows of tbl_track whose id is among the aux_track_source rows with the URI.
locate_entities(tbl, auxtbl, uri) ==
    {u \in Uids : /\ tbl[u].state = "stored"
                  /\ auxtbl[u] # None
                  /\ TrackUri(auxtbl[u]) = uri}

\* create_entity and insert_entity: a new row under EntityHeader::initial()
\* and the index rows of the body.
create_entity(tbl, auxtbl, body, now) ==
    LET uid == CHOOSE u \in Uids :
                    /\ tbl[u].state = "unused"
                    /\ \A v \in Uids : v < u => tbl[v].state # "unused"
    IN  [tracks |-> [tbl EXCEPT ![uid] =
                        [state |-> "stored", rev |-> RevInitial(now), body |-> body]],
         aux |-> after_entity_updated(auxtbl, uid, body),
         uid |-> uid, rev |-> RevInitial(now)]

NoHeader == [uid |-> 0, rev |-> RevInitial(0)]

ItemResult(tbl, auxtbl, kind, hdr, located, decoded) ==
    [tracks |-> tbl, aux |-> auxtbl, kind |-> kind, hdr |-> hdr,
     located |-> located, decoded |-> decoded]

\* replace_entities whose loop returns an error for an ambiguous item.
replace_entities_item_failing(tbl, auxtbl, mode, replacement, now) ==
    LET located_entities == locate_entities(tbl, auxtbl, replacement.uri)
        deserialized_entities == {u \in located_entities : tbl[u].body # Undecodable}
        located == Cardinality(located_entities)
        decoded == Cardinality(deserialized_entities)
    IN  IF decoded < located
        THEN ItemResult(tbl, auxtbl, "rejected", NoHeader, located, decoded)
        ELSE IF decoded > 1
        THEN ItemResult(tbl, auxtbl, "error", NoHeader, located, decoded)
        ELSE IF decoded = 1
        THEN LET uid == CHOOSE u \in deserialized_entities : TRUE
                 hdr == [uid |-> uid, rev |-> tbl[uid].rev]
             IN  IF tbl[uid].body = replacement.track
                 THEN ItemResult(tbl, auxtbl, "skipped", hdr, located, decoded)
                 ELSE ItemResult(tbl, auxtbl, "update", hdr, located, decoded)
        ELSE IF mode = "UpdateOnly"
        THEN ItemResult(tbl, auxtbl, "discarded", NoHeader, located, decoded)
        ELSE LET r == create_entity(tbl, auxtbl, replacement.track, now)
             IN  ItemResult(r.tracks, r.aux, "created",
                            [uid |-> r.uid, rev |-> r.rev], located, decoded)

\* Lines 238-288 and 306-321 of replace_entities: one replacement up to the
\* call of update_entity.  kind is the list of the result the item goes to,
\* or "update" when update_entity has to follow.
replace_entities_item(tbl, auxtbl, mode, replacement, now) ==
    LET located_entities == locate_entities(tbl, auxtbl, replacement.uri)
        deserialized_entities == {u \in located_entities : tbl[u].body # Undecodable}
        located == Cardinality(located_entities)
        decoded == Cardinality(deserialized_entities)
    IN  IF decoded < located
        THEN ItemResult(tbl, auxtbl, "rejected", NoHeader, located, decoded)
        ELSE IF decoded > 1
        THEN ItemResult(tbl, auxtbl, "rejected", NoHeader, located, decoded)
        ELSE IF decoded = 1
        THEN LET uid == CHOOSE u \in deserialized_entities : TRUE
                 hdr == [uid |-> uid, rev |-> tbl[uid].rev]
             IN  IF tbl[uid].body = replacement.track
                 THEN ItemResult(tbl, auxtbl, "skipped", hdr, located, decoded)
                 ELSE ItemResult(tbl, auxtbl, "update", hdr, located, decoded)
        ELSE IF mode = "UpdateOnly"
        THEN ItemResult(tbl, auxtbl, "discarded", NoHeader, located, decoded)
        ELSE LET r == create_entity(tbl, auxtbl, replacement.track, now)
             IN  ItemResult(r.tracks, r.aux, "created",
                            [uid |-> r.uid, rev |-> r.rev], located, decoded)

\* Lines 289-304 of replace_entities: update_entity and its two results.
replace_entities_update(tbl, auxtbl, hdr, track, now) ==
    LET r == update_entity(tbl, auxtbl, hdr.uid, hdr.rev, track, now)
    IN  [tracks |-> r.tracks, aux |-> r.aux,
         kind |-> IF r.ok THEN "updated" ELSE "rejected",
         hdr |-> [uid |-> hdr.uid, rev |-> r.next]]

ReplacedTracks ==
    [created |-> <<>>, updated |-> <<>>, skipped |-> <<>>, rejected |-> <<>>,
     discarded |-> <<>>]

\* results.<kind>.push(...): headers for created, updated and skipped
\* tracks, the URI for rejected and discarded ones.
Pushed(results, kind, hdr, uri) ==
    CASE kind = "created" -> [results EXCEPT !.created = Append(@, hdr)]
      [] kind = "updated" -> [results EXCEPT !.updated = Append(@, hdr)]
      [] kind = "skipped" -> [results EXCEPT !.skipped = Append(@, hdr)]
      [] kind = "rejected" -> [results EXCEPT !.rejected = Append(@, uri)]
      [] kind = "discarded" -> [results EXCEPT !.discarded = Append(@, uri)]

\* bulk.log notes for every processed replacement what the loop found and
\* where the item went.
IdleBulk ==
    [pc |-> "idle", mode |-> "", n |-> 0, todo |-> <<>>, hdr |-> NoHeader,
     results |-> ReplacedTracks, log |-> <<>>, ok |-> FALSE, failed |-> FALSE]

InitBulk == bulk = IdleBulk

Logged(uri, located, decoded, raced, kind) ==
    [uri |-> uri, located |-> located, decoded |-> decoded, raced |-> raced,
     kind |-> kind]

AfterItem(b) ==
    IF b.todo = <<>> THEN [b EXCEPT !.pc = "done", !.ok = TRUE] ELSE [b EXCEPT !.pc = "item"]

\* A client sends a batch of replacements.
ReplaceEntitiesCall ==
    /\ bulk.pc = "idle"
    /\ \E mode \in {"UpdateOnly", "UpdateOrCreate"}, replacements \in Batches :
        bulk' = [IdleBulk EXCEPT !.pc = "item", !.mode = mode,
                    !.n = Len(replacements), !.todo = replacements]
    /\ UNCHANGED <<tracks, aux>>

\* One turn of the loop up to the call of update_entity.
ReplaceEntitiesItem ==
    /\ bulk.pc = "item"
    /\ \/ \E u \in Uids : tracks[u].state = "unused"
       \/ bulk.mode = "UpdateOnly"
       \/ locate_entities(tracks, aux, Head(bulk.todo).uri) # {}
    /\ LET replacement == Head(bulk.todo)
           r == replace_entities_item(tracks, aux, bulk.mode, replacement, clock)
           noted == [bulk EXCEPT !.todo = Tail(@), !.hdr = r.hdr]
       IN  /\ r.kind = "update" => r.hdr.rev.ordinal < MaxRev
           /\ tracks' = r.tracks
           /\ aux' = r.aux
           /\ bulk' =
                CASE r.kind = "update" ->
                        [bulk EXCEPT !.pc = "update", !.hdr = r.hdr,
                            !.log = Append(@, Logged(replacement.uri, r.located,
                                                     r.decoded, FALSE, "update"))]
                  [] r.kind = "error" ->
                        [bulk EXCEPT !.pc = "done", !.ok = FALSE]
                  [] OTHER ->
                        AfterItem([noted EXCEPT
                            !.results = Pushed(@, r.kind, r.hdr, replacement.uri),
                            !.log = Append(@, Logged(replacement.uri, r.located,
                                                     r.decoded, FALSE, r.kind))])

\* The call of update_entity for the located entity and the end of the turn.
ReplaceEntitiesUpdate ==
    /\ bulk.pc = "update"
    /\ LET replacement == Head(bulk.todo)
           r == replace_entities_update(tracks, aux, bulk.hdr, replacement.track, clock)
           i == Len(bulk.log)
       IN  /\ tracks' = r.tracks
           /\ aux' = r.aux
           /\ bulk' = AfterItem([bulk EXCEPT !.todo = Tail(@), !.hdr = r.hdr,
                            !.results = Pushed(@, r.kind, r.hdr, replacement.uri),
                            !.log[i].kind = r.kind,
                            !.log[i].raced =
                                \/ tracks[bulk.hdr.uid].state # "stored"
                                \/ tracks[bulk.hdr.uid].rev # bulk.hdr.rev])

\* locate_entities, update_entity or create_entity returns an error of the
\* database and the ? operator ends replace_entities with it.
ReplaceEntitiesFail ==
    /\ bulk.pc \in {"item", "update"}
    /\ bulk' = [bulk EXCEPT !.pc = "done", !.ok = FALSE, !.failed = TRUE]
    /\ UNCHANGED <<tracks, aux>>

\* The handler hands the results, or the error, of the call to the client.
ReplaceEntitiesReturn ==
    /\ bulk.pc = "done"
    /\ bulk' = IdleBulk
    /\ UNCHANGED <<tracks, aux>>

BulkForgotten == IF bulk.pc = "done" THEN IdleBulk ELSE bulk

\* Other clients create, update and delete tracks; an update can fall
\* between the locate and the update of a running replace_entities.
OtherCreate ==
    /\ \E u \in Uids : tracks[u].state = "unused"
    /\ \E body \in {"b0", "b2"} :
        LET r == create_entity(tracks, aux, body, clock)
        IN  /\ tracks' = r.tracks
            /\ aux' = r.aux
    /\ bulk' = BulkForgotten

OtherUpdate ==
    /\ \E u \in Uids :
        /\ tracks[u].state = "stored"
        /\ tracks[u].rev.ordinal < MaxRev
        /\ LET r == update_entity(tracks, aux, u, tracks[u].rev, "b0", clock)
           IN  /\ tracks' = r.tracks
               /\ aux' = r.aux
    /\ bulk' = BulkForgotten

OtherDelete ==
    /\ \E u \in Uids :
        /\ tracks[u].state = "stored"
        /\ tracks' = [tracks EXCEPT ![u] = NoRow]
        /\ aux' = before_entity_updated_or_removed(aux, u)
    /\ bulk' = BulkForgotten

\* A row written in a format or schema the reader no longer decodes.
OtherUndecodable ==
    /\ bulk.pc \in {"idle", "done"}
    /\ \E u \in Uids :
        /\ tracks[u].state = "stored"
        /\ tracks[u].body # Undecodable
        /\ tracks' = [tracks EXCEPT ![u].body = Undecodable]
    /\ bulk' = IdleBulk
    /\ UNCHANGED aux

\* ------------------------------------------------------- duplicate finder
TrackIds == {1, 2, 3}
CollectedAts == 1..MaxCollectedAt

\* bitflags! SearchFlags, a flag set as the set of the names of its bits
SearchFlags ==
    {"SOURCE_TRACKED", "ALBUM_ARTIST", "ALBUM_TITLE", "TRACK_ARTIST",
     "TRACK_TITLE", "RELEASED_AT"}

NONE == {}

ALL == SearchFlags

\* Params::new()
ParamsNew ==
    [audio_duration_tolerance |-> 500,
     max_results |-> 2,
     search_flags |-> ALL]

\* Params::with_max_results(max_results)
with_max_results(max_results) == [ParamsNew EXCEPT !.max_results = max_results]

ParamsSet ==
    UNION {{with_max_results(n),
            [with_max_results(n) EXCEPT
                !.search_flags = {"TRACK_TITLE", "SOURCE_TRACKED"}],
            [with_max_results(n) EXCEPT
                !.search_flags = NONE, !.audio_duration_tolerance = 100]}
           : n \in 1..MaxResults}

\* A string is the sequence of its characters; an Option is the empty set or
\* a singleton.
Blank == " "

\* str::trim
trim(s) ==
    LET kept == {i \in 1..Len(s) : s[i] # Blank}
    IN  IF kept = {} THEN <<>>
        ELSE LET first == CHOOSE i \in kept : \A j \in kept : i <= j
                 last_ == CHOOSE i \in kept : \A j \in kept : j <= i
             IN  SubSeq(s, first, last_)

to_lowercase(s) ==
    [i \in 1..Len(s) |->
        IF s[i] = "A" THEN "a" ELSE IF s[i] = "B" THEN "b" ELSE s[i]]

\* case-insensitive "contains"
contains(field, term) ==
    \E i \in 0..(Len(field) - Len(term)) :
        SubSeq(to_lowercase(field), i + 1, i + Len(term)) = to_lowercase(term)

\* The tracks searched for and searched through.  TrackD is of a content
\* type whose name begins with the name of the type of TrackA and TrackB.
TrackA ==
    [track_artist |-> {<<"a">>}, track_title |-> {<<"b">>},
     album_artist |-> {}, album_title |-> {<<" ">>},
     released_at |-> {2020}, duration |-> {1000}, content_type |-> <<"m", "4">>]

TrackB ==
    [track_artist |-> {<<"A">>}, track_title |-> {<<" ", "b", " ">>},
     album_artist |-> {}, album_title |-> {},
     released_at |-> {2020}, duration |-> {1400}, content_type |-> <<"m", "4">>]

TrackC ==
    [track_artist |-> {<<"a">>}, track_title |-> {<<"c">>},
     album_artist |-> {}, album_title |-> {},
     released_at |-> {}, duration |-> {}, content_type |-> <<"o">>]

TrackD ==
    [track_artist |-> {<<"a">>}, track_title |-> {<<"c">>},
     album_artist |-> {}, album_title |-> {},
     released_at |-> {2020}, duration |-> {1000}, content_type |-> <<"m", "4", "a">>]

Track == {TrackA, TrackB, TrackC}

\* What a row of the repository holds of a track besides its collection time.
Sources ==
    {[collection_id |-> 1, tracked |-> TRUE, entity |-> TrackA],
     [collection_id |-> 1, tracked |-> TRUE, entity |-> TrackB],
     [collection_id |-> 1, tracked |-> FALSE, entity |-> TrackD],
     [collection_id |-> 2, tracked |-> TRUE, entity |-> TrackA],
     [collection_id |-> 1, tracked |-> TRUE, entity |-> TrackC]}

\* if search_flags.contains(flag) { if let Some(s) = field { let s = s.trim();
\* if !s.is_empty() { all_filters.push(Phrase) } } }
PhraseOf(search_flags, flag, field, value) ==
    IF flag \in search_flags /\ value # {}
    THEN LET term == trim(CHOOSE s \in value : TRUE)
         IN  IF term # <<>>
             THEN <<[kind |-> "Phrase", field |-> field, arg |-> term]>>
             ELSE <<>>
    ELSE <<>>

\* SearchFilter::audio_duration_around(duration, tolerance)
audio_duration_around(duration, tolerance) ==
    [kind |-> "Numeric", field |-> "duration",
     arg |-> {[lo |-> duration - tolerance, hi |-> duration + tolerance]}]

\* The list all_filters of find_duplicate, in the order the code pushes it.
all_filters(track, params) ==
    LET flags == params.search_flags
    IN  PhraseOf(flags, "TRACK_ARTIST", "track_artist", track.track_artist)
        \o PhraseOf(flags, "TRACK_TITLE", "track_title", track.track_title)
        \o PhraseOf(flags, "ALBUM_ARTIST", "album_artist", track.album_artist)
        \o PhraseOf(flags, "ALBUM_TITLE", "album_title", track.album_title)
        \o (IF "RELEASED_AT" \in flags
            THEN <<[kind |-> "DateTime", field |-> "released_at",
                    arg |-> track.released_at]>>
            ELSE <<>>)
        \o (IF "SOURCE_TRACKED" \in flags
            THEN <<[kind |-> "Condition", field |-> "tracked", arg |-> {}]>>
            ELSE <<>>)
        \o <<IF track.duration # {}
             THEN audio_duration_around(CHOOSE d \in track.duration : TRUE,
                                        params.audio_duration_tolerance)
             ELSE [kind |-> "Numeric", field |-> "duration", arg |-> {}]>>
        \o <<[kind |-> "Phrase", field |-> "content_type",
              arg |-> track.content_type]>>

\* Whether a row passes one filter of the list.
Matches(row, filter) ==
    CASE filter.kind = "Phrase" ->
            IF filter.field = "content_type"
            THEN contains(row.entity.content_type, filter.arg)
            ELSE /\ row.entity[filter.field] # {}
                 /\ contains(CHOOSE s \in row.entity[filter.field] : TRUE,
                             filter.arg)
      [] filter.kind = "DateTime" -> row.entity.released_at = filter.arg
      [] filter.kind = "Condition" -> row.tracked
      [] filter.kind = "Numeric" ->
            IF filter.arg = {} THEN row.entity.duration = {}
            ELSE /\ row.entity.duration # {}
                 /\ LET d == CHOOSE x \in row.entity.duration : TRUE
                        range == CHOOSE r \in filter.arg : TRUE
                    IN  range.lo <= d /\ d <= range.hi

\* SearchFilter::All
MatchesAll(row, filters) ==
    \A i \in 1..Len(filters) : Matches(row, filters[i])

\* One row of the repository: nothing, or one collected source.
NoSource == {}

\* repo.search_collected_tracks with the default pagination, filter All and
\* ordering SourceCollectedAt descending: every list the search may deliver.
\* Rows collected at the same time come in any order.
search_collected_tracks(rows, collection_id, filters) ==
    LET row(id) == CHOOSE r \in rows[id] : TRUE
        found == {id \in TrackIds :
                    /\ rows[id] # NoSource
                    /\ row(id).collection_id = collection_id
                    /\ MatchesAll(row(id), filters)}
        n == Cardinality(found)
        orders == {s \in [1..n -> found] :
                    /\ \A i, j \in 1..n : i # j => s[i] # s[j]
                    /\ \A i, j \in 1..n :
                        i < j => row(s[i]).collected_at >= row(s[j]).collected_at}
    IN  {[i \in 1..n |-> [id |-> s[i], entity |-> row(s[i]).entity]] : s \in orders}

\* .take(n)
take(seq, n) == SubSeq(seq, 1, IF n < Len(seq) THEN n ELSE Len(seq))

\* find_duplicate without the filter_map that drops the track's own id
find_duplicate_keeping_own(candidates, track_id, params) ==
    take(candidates, params.max_results)

\* find_duplicate with take() before filter_map
find_duplicate_taking_first(candidates, track_id, params) ==
    LET other(c) == c.id # track_id
    IN  SelectSeq(take(candidates, params.max_results), other)

\* candidates.into_iter().filter_map(..).take(max_results.get()).collect()
find_duplicate(candidates, track_id, params) ==
    LET other(c) == c.id # track_id
    IN  take(SelectSeq(candidates, other), params.max_results)

IdleDup ==
    [called |-> FALSE, collection_id |-> 1, track_id |-> 1, track |-> TrackA,
     params |-> ParamsNew, filters |-> <<>>, candidates |-> <<>>,
     result |-> <<>>]

InitDup ==
    /\ lib = [id \in TrackIds |-> NoSource]
    /\ dup = IdleDup

\* A source is collected into the repository under a free record id.
CollectSource ==
    /\ ~dup.called
    /\ \E id \in TrackIds, s \in Sources, at \in CollectedAts :
        /\ lib[id] = NoSource
        /\ lib' = [lib EXCEPT ![id] =
                    {[collection_id |-> s.collection_id, tracked |-> s.tracked,
                      entity |-> s.entity, collected_at |-> at]}]
    /\ UNCHANGED dup

\* A source is purged from the repository.
PurgeSource ==
    /\ ~dup.called
    /\ \E id \in TrackIds :
        /\ lib[id] # NoSource
        /\ lib' = [lib EXCEPT ![id] = NoSource]
    /\ UNCHANGED dup

\* One call of find_duplicate, made while the repository is not written.
FindDuplicate ==
    /\ ~dup.called
    /\ \E collection_id \in {1, 2}, track_id \in TrackIds, track \in Track,
          params \in ParamsSet :
        \E candidates \in
              search_collected_tracks(lib, collection_id,
                                      all_filters(track, params)) :
            dup' = [called |-> TRUE, collection_id |-> collection_id,
                    track_id |-> track_id, track |-> track, params |-> params,
                    filters |-> all_filters(track, params),
                    candidates |-> candidates,
                    result |-> find_duplicate(candidates, track_id, params)]
    /\ UNCHANGED lib

\* The caller drops the list it was given; the list is never persisted.
DropCandidates ==
    /\ dup.called
    /\ dup' = IdleDup
    /\ UNCHANGED lib

\* --------------------------------------------------- content metadata flags
\* bitflags! ContentMetadataFlags: a value is the set of the names of its set
\* bits; UNRELIABLE has no bit.
UNRELIABLE == {}

ContentMetadataFlags == SUBSET {"RELIABLE", "LOCKED", "STALE"}

\* The targets update may be called with: debug_assert!(!target.is_stale())
Targets == {t \in ContentMetadataFlags : "STALE" \notin t}

\* update with *self |= STALE also while locked
update_stale_while_locked(self, target) ==
    IF \/ (self \ {"STALE"}) = target
       \/ "LOCKED" \in target
       \/ ("LOCKED" \notin self /\ "RELIABLE" \in target)
    THEN [flags |-> target, ret |-> TRUE]
    ELSE [flags |-> self \cup {"STALE"}, ret |-> FALSE]

\* update comparing *self, not *self - STALE, with the target
update_comparing_stale(self, target) ==
    IF \/ self = target
       \/ "LOCKED" \in target
       \/ ("LOCKED" \notin self /\ "RELIABLE" \in target)
    THEN [flags |-> target, ret |-> TRUE]
    ELSE [flags |-> IF "LOCKED" \notin self THEN self \cup {"STALE"} ELSE self,
          ret |-> FALSE]

\* update letting a reliable target through while locked
update_reliable_while_locked(self, target) ==
    IF \/ (self \ {"STALE"}) = target
       \/ "LOCKED" \in target
       \/ "RELIABLE" \in target
    THEN [flags |-> target, ret |-> TRUE]
    ELSE [flags |-> IF "LOCKED" \notin self THEN self \cup {"STALE"} ELSE self,
          ret |-> FALSE]

\* ContentMetadataFlags::update(&mut self, target) -> bool
update(self, target) ==
    IF \/ (self \ {"STALE"}) = target
       \/ "LOCKED" \in target
       \/ ("LOCKED" \notin self /\ "RELIABLE" \in target)
    THEN [flags |-> target, ret |-> TRUE]
    ELSE [flags |-> IF "LOCKED" \notin self THEN self \cup {"STALE"} ELSE self,
          ret |-> FALSE]

\* The flags of one media source: the value they were loaded with, the
\* targets of the update calls since, the value before the last call, its
\* return value and the value now.
InitMeta ==
    cm = [origin |-> UNRELIABLE, targets |-> <<>>, before |-> UNRELIABLE,
          ret |-> FALSE, flags |-> UNRELIABLE]

\* A media source is loaded with whatever flags were stored for it.
LoadContentMetadata ==
    \E s \in ContentMetadataFlags :
        cm' = [origin |-> s, targets |-> <<>>, before |-> s, ret |-> FALSE,
               flags |-> s]

\* An importer calls update with the state of the metadata it read.
UpdateContentMetadata ==
    /\ Len(cm.targets) < MaxUpdates
    /\ \E target \in Targets :
        LET r == update(cm.flags, target)
        IN  cm' = [cm EXCEPT !.targets = Append(@, target), !.before = cm.flags,
                             !.ret = r.ret, !.flags = r.flags]

\* ---------------------------------------------------------- specifications
Init ==
    InitCache /\ InitScan /\ InitTrack /\ InitConc /\ InitPasses /\ InitReplace
    /\ InitBulk /\ InitDup /\ InitMeta

Next ==
    /\ \/ UpdateEntriesStatus
       \/ DeleteEntries
       \/ UpdateEntryDigest
       \/ ResetEntryStatusToCurrent
    /\ UNCHANGED <<scanVars, trackVars, procs, passes, replaceVars, bulk, dupVars, cm>>

Spec == Init /\ [][Next]_vars

NextScan ==
    /\ \/ StartPass
       \/ VisitDirectory
       \/ AbortPass
       \/ FailPass
       \/ FinishPass
       \/ FsChange
       \/ ConfirmDirectory
    /\ UNCHANGED <<trackVars, procs, passes, replaceVars, bulk, dupVars, cm>>

SpecScan == Init /\ [][NextScan]_vars

NextTrack ==
    /\ \/ Tick
       \/ CreateTrack
       \/ DeleteTrack
       \/ UpdateTrack
       \/ \E w \in Writers : WriterRead(w)
       \/ \E w \in Writers : WriterUpdate(w)
       \/ WriterReset
    /\ UNCHANGED <<cache, last, scanVars, procs, passes, replaceVars, bulk, dupVars, cm>>

SpecTrack == Init /\ [][NextTrack]_vars

NextConc ==
    /\ \/ \E p \in Procs : CallUpdateEntryDigest(p)
       \/ \E p \in Procs : StmtMarkCurrent(p)
       \/ \E p \in Procs : StmtMarkModified(p)
       \/ \E p \in Procs : StmtInsertOrIgnore(p)
       \/ ConcStatusWriter
       \/ ConcPurge
    /\ UNCHANGED <<last, scanVars, trackVars, passes, replaceVars, bulk, dupVars, cm>>

SpecConc == Init /\ [][NextConc]_vars

NextPasses ==
    /\ \/ \E p \in Procs : PassStart(p)
       \/ \E p \in Procs : PassVisit(p)
       \/ \E p \in Procs : PassAbort(p)
       \/ \E p \in Procs : PassFinish(p)
       \/ PassFsChange
       \/ PassConfirmDirectory
    /\ UNCHANGED <<last, scan, trail, trackVars, procs, replaceVars, bulk, dupVars, cm>>

SpecPasses == Init /\ [][NextPasses]_vars

NextReplace ==
    /\ \/ ReplaceTrackLocate
       \/ ReplaceTrackUpdate
       \/ ReplaceTrackInsert
       \/ StoreInsert
       \/ StoreUpdate
       \/ StoreDelete
    /\ UNCHANGED <<cache, last, scanVars, trackVars, procs, passes, bulk, dupVars, cm>>

SpecReplace == Init /\ [][NextReplace]_vars

NextBulk ==
    /\ \/ ReplaceEntitiesCall
       \/ ReplaceEntitiesItem
       \/ ReplaceEntitiesUpdate
       \/ ReplaceEntitiesFail
       \/ ReplaceEntitiesReturn
       \/ OtherCreate
       \/ OtherUpdate
       \/ OtherDelete
       \/ OtherUndecodable
    /\ UNCHANGED <<cache, last, scanVars, writers, clock, upd, procs, passes,
                   replaceVars, dupVars, cm>>

SpecBulk == Init /\ [][NextBulk]_vars

NextDup ==
    /\ \/ CollectSource
       \/ PurgeSource
       \/ FindDuplicate
       \/ DropCandidates
    /\ UNCHANGED <<cache, last, scanVars, trackVars, procs, passes,
                   replaceVars, bulk, cm>>

SpecDup == Init /\ [][NextDup]_vars

NextMeta ==
    /\ \/ LoadContentMetadata
       \/ UpdateContentMetadata
    /\ UNCHANGED <<cache, last, scanVars, trackVars, procs, passes,
                   replaceVars, bulk, dupVars>>

SpecMeta == Init /\ [][NextMeta]_vars

\* ------------------------------------------------------------- properties
IsDigestCall == last.op = "update_entry_digest"

CallKey == <<last.coll, last.uri>>

EntryExisted == Len(last.pre) > 0

StaleWithSameDigest ==
    /\ EntryExisted
    /\ last.pre[1].digest = last.digest
    /\ last.pre[1].status \in {"Outdated", "Orphaned"}

\* C1: update_entry_digest returns Current iff an entry with the same digest
\* and status Outdated or Orphaned existed (it becomes Current, digest kept);
\* otherwise Updated iff an entry with another digest existed (it gets the
\* digest and status Modified); otherwise Inserted iff no entry existed (an
\* Added entry with the digest is created); otherwise Skipped, and then no
\* row of the table has changed.  No call changes a row under another key.
C1_DigestOutcome ==
    IsDigestCall =>
        /\ (last.out = "Current") <=> StaleWithSameDigest
        /\ (last.out = "Updated") <=> (EntryExisted /\ last.pre[1].digest # last.digest)
        /\ (last.out = "Inserted") <=> ~EntryExisted
        /\ (last.out = "Skipped") <=>
                (/\ EntryExisted
                 /\ last.pre[1].digest = last.digest
                 /\ last.pre[1].status \in {"Current", "Added", "Modified"})
        /\ last.out = "Current" =>
                cache[CallKey] = <<[digest |-> last.pre[1].digest, status |-> "Current"]>>
        /\ last.out = "Updated" =>
                cache[CallKey] = <<[digest |-> last.digest, status |-> "Modified"]>>
        /\ last.out = "Inserted" =>
                cache[CallKey] = <<[digest |-> last.digest, status |-> "Added"]>>
        /\ last.out = "Skipped" => last.changed = {}
        /\ last.changed \subseteq {CallKey}

C1_Witness ==
    /\ IsDigestCall
    /\ last.out = "Current"
    /\ last.pre[1].status = "Orphaned"
    /\ \E k \in Keys \ {CallKey} : cache[k] # <<>>

\* C2: when update_entry_digest is called twice in a row with the same
\* collection, path and digest, the second call returns Current or Skipped,
\* never Inserted or Updated.
C2_SecondCallIsNoop ==
    (IsDigestCall /\ last.prevOut # None) => last.out \in {"Current", "Skipped"}

C2_Witness ==
    /\ IsDigestCall
    /\ last.prevOut \in {"Inserted", "Updated"}
    /\ last.out = "Skipped"

\* C6: delete_entries removes only rows that are Orphaned, belong to the
\* given collection and lie under the given prefix, whatever the optional
\* status argument; with a status other than Orphaned it removes nothing;
\* the rows it does not remove stay as they are.
C6_DeleteOnlyOrphaned ==
    last.op = "delete_entries" =>
        /\ \A kr \in last.removed :
                /\ kr[2].status = "Orphaned"
                /\ kr[1][1] = last.coll
                /\ IsUnder(last.uri, kr[1][2])
        /\ last.status \notin {None, "Orphaned"} => last.removed = {}
        /\ last.rows = Cardinality(last.removed)
        /\ \A k \in last.changed : \E kr \in last.removed : kr[1] = k /\ cache[k] = <<>>

C6_Witness ==
    /\ last.op = "delete_entries"
    /\ last.removed # {}
    /\ \E k \in Keys :
            /\ k[1] = last.coll
            /\ IsUnder(last.uri, k[2])
            /\ cache[k] # <<>>
            /\ cache[k][1].status # "Orphaned"

\* The scenario of /lib/a: a first full pass sees it with a digest D1, the
\* second with D1 again, the third with another digest D2, the fourth does
\* not see it.  trail holds the passes of the scenario finished so far.
Scenario(n) == trail.on /\ Len(trail.seq) >= n

\* C3 as stated: the four passes report Inserted, Current, Updated and leave
\* the entry Orphaned.
C3_ScenarioAsStated ==
    /\ Scenario(1) => trail.seq[1].out = "Inserted"
    /\ Scenario(2) => trail.seq[2].out = "Current"
    /\ Scenario(3) => trail.seq[3].out = "Updated"
    /\ Scenario(4) => trail.seq[4].status = "Orphaned"

\* C3 amended: the first pass reports Inserted; the second reports Current
\* when the entry was confirmed (reset to Current) since the first pass and
\* Skipped when it was not; the third reports Updated; after the fourth the
\* entry is Orphaned when it was confirmed since the third pass, and is
\* still Modified when it was not.
C3_ScenarioWithConfirmation ==
    /\ Scenario(1) => trail.seq[1].out = "Inserted" /\ trail.seq[1].status = "Added"
    /\ Scenario(2) =>
            trail.seq[2].out = (IF trail.seq[2].conf THEN "Current" ELSE "Skipped")
    /\ Scenario(3) => trail.seq[3].out = "Updated" /\ trail.seq[3].status = "Modified"
    /\ Scenario(4) =>
            /\ trail.seq[4].out = None
            /\ trail.seq[4].status = (IF trail.seq[4].conf THEN "Orphaned" ELSE "Modified")

C3_Witness ==
    /\ Scenario(4)
    /\ trail.seq[2].out = "Current"
    /\ trail.seq[4].status = "Orphaned"

PassEnded(completion) == scan.pc = "done" /\ scan.completion = completion

\* C4: a pass that ends Aborted reports orphaned = 0, leaves no entry
\* Orphaned that was not Orphaned when the pass began, and the entry of
\* every directory it visited holds the digest the visit stored.
C4_AbortedPassOrphansNothing ==
    PassEnded("Aborted") =>
        /\ scan.summary.orphaned = 0
        /\ OrphanedKeys(cache) \subseteq scan.orphaned0
        /\ \A p \in Paths : scan.visited[p].out # None =>
                /\ Len(cache[<<scan.coll, p>>]) = 1
                /\ cache[<<scan.coll, p>>][1].digest = scan.visited[p].digest

C4_Witness ==
    /\ PassEnded("Aborted")
    /\ \E p \in Paths : scan.visited[p].out \in {"Updated", "Inserted"}
    /\ \E p \in Paths :
            /\ scan.visited[p].out = None
            /\ IsUnder(scan.root, p)
            /\ cache[<<scan.coll, p>>] # <<>>
            /\ cache[<<scan.coll, p>>][1].status = "Outdated"

\* C5: a pass that ends Finished has marked at most as many entries
\* Orphaned as it had marked Outdated at its start.
C5_OrphanBound ==
    PassEnded("Finished") => scan.summary.orphaned <= scan.outdated_count

Stored(tbl, u) == tbl[u].state = "stored"

\* C7: the revision of a stored entity changes only by a successful update
\* that was given the stored revision, and then to its successor: ordinal
\* plus one, which is also the revision the update returns.  So the stored
\* ordinal never decreases.
C7_RevisionSuccessor ==
    [][/\ \A u \in Uids : (Stored(tracks, u) /\ Stored(tracks', u)) =>
            \/ tracks'[u].rev = tracks[u].rev
            \/ /\ tracks'[u].rev.ordinal = tracks[u].rev.ordinal + 1
               /\ upd'.ok /\ upd'.uid = u
               /\ upd'.rev = tracks[u].rev
               /\ upd'.next = tracks'[u].rev
       /\ (upd' # upd /\ upd'.ok) =>
            /\ tracks'[upd'.uid].rev.ordinal = upd'.rev.ordinal + 1
            /\ tracks'[upd'.uid].rev.ordinal = tracks[upd'.uid].rev.ordinal + 1
            /\ tracks'[upd'.uid].rev = upd'.next
            /\ tracks'[upd'.uid].body = upd'.body
      ]_vars

C7_Witness ==
    /\ upd.ok
    /\ upd.rev.ordinal = 1
    /\ Stored(tracks, upd.uid)
    /\ tracks[upd.uid].rev.ordinal = 2

\* C8: an update that supplies a revision other than the stored one is not
\* applied: it returns no new revision and the row keeps its revision and
\* its payload.
C8_StaleUpdateRejected ==
    (upd.uid # 0 /\ upd.pre.state = "stored" /\ upd.rev # upd.pre.rev) =>
        /\ ~upd.ok
        /\ tracks[upd.uid] = upd.pre

C8_Witness ==
    /\ upd.uid # 0
    /\ upd.pre.state = "stored"
    /\ upd.rev.ordinal = upd.pre.rev.ordinal
    /\ upd.rev.ts # upd.pre.rev.ts
    /\ upd.body # upd.pre.body
    /\ ~upd.ok

BothWrote ==
    /\ \A w \in Writers : writers[w].pc = "done"
    /\ writers[1].uid = writers[2].uid
    /\ writers[1].rev = writers[2].rev

\* C9: when both writers have read the same entity at the same revision r
\* and both have sent their update, exactly one update was applied; the
\* stored row holds the payload of that writer at ordinal r + 1, and not the
\* payload of the other.
C9_NoLostUpdate ==
    BothWrote =>
        /\ ~(writers[1].ok /\ writers[2].ok)
        /\ \E w \in Writers :
                /\ writers[w].ok
                /\ tracks[writers[w].uid].body = writers[w].body
                /\ tracks[writers[w].uid].rev.ordinal = writers[w].rev.ordinal + 1
        /\ \A w \in Writers :
                ~writers[w].ok => tracks[writers[w].uid].body # writers[w].body

C9_Witness ==
    /\ BothWrote
    /\ writers[2].ok
    /\ ~writers[1].ok
    /\ writers[1].rev.ordinal = 1

C11_SkippedHoldsDigest ==
    [][\A p \in Procs :
        (procs[p].pc = "s3" /\ procs'[p].pc = "done" /\ procs'[p].out = "Skipped")
            => /\ cache'[procs[p].key] # <<>>
               /\ \A i \in 1..Len(cache'[procs[p].key]) :
                    cache'[procs[p].key][i].digest = procs[p].digest]_vars

\* C12: when two scan passes over the same root interleave, the
\* reconciliation of a pass that ends Finished never marks as Orphaned an
\* entry that this same pass visited.
C12_NoVisitedEntryOrphaned ==
    \A p \in Procs :
        passes[p].completion = "Finished"
            => passes[p].orphaned \cap passes[p].visited = {}

\* The entities stored at a media URI, within the collection if one is given.
StoredAt(collection_uid, media_uri) ==
    {u \in RUids : /\ store[u].stored
                   /\ store[u].uri = media_uri
                   /\ (collection_uid = {} \/ store[u].coll \in collection_uid)}

\* The steps of replace_track: the call with the locate, the update, the
\* insert.
LocateStep == rp.pc \in {"idle", "done"} /\ rp'.pc # "idle" /\ rp' # rp

UpdateStep == rp.pc = "update" /\ rp'.pc = "done"

InsertStep == rp.pc = "insert" /\ rp'.pc = "done"

\* C13: replacing a track at a path where exactly one entity is stored, with
\* body data identical to the stored body data, returns Unchanged with the
\* header of that entity and writes nothing, on every repetition.
C13_IdenticalPayloadUnchanged ==
    [][LocateStep =>
        \A u \in RUids :
            (StoredAt(rp'.collection_uid, rp'.media_uri) = {u}
                /\ store[u].data = rp'.body_data)
            => /\ rp'.pc = "done"
               /\ rp'.out = "Unchanged"
               /\ rp'.uid = u
               /\ rp'.rev = store[u].rev
               /\ store' = store]_vars

C13_Witness ==
    /\ rp.pc = "done"
    /\ rp.out = "Unchanged"
    /\ rp.repeated
    /\ rp.collection_uid = {1}
    /\ store[rp.uid].rev > 0

\* C14: when more than one stored entity matches the media path (within the
\* collection if one is given), replace returns AmbiguousMediaUri(n) with n
\* the number of matches, in every mode, and inserts and updates nothing.
C14_AmbiguousMediaUri ==
    [][LocateStep =>
        LET matches == StoredAt(rp'.collection_uid, rp'.media_uri)
        IN  Cardinality(matches) > 1
            => /\ rp'.pc = "done"
               /\ rp'.out = "AmbiguousMediaUri"
               /\ rp'.n = Cardinality(matches)
               /\ store' = store]_vars

C14_Witness ==
    /\ rp.pc = "done"
    /\ rp.out = "AmbiguousMediaUri"
    /\ rp.n = 2
    /\ rp.mode = "UpdateOrCreate"
    /\ rp.collection_uid = {1}

C16_IncompatibleAsStated ==
    [][LocateStep =>
        \A u \in RUids :
            StoredAt(rp'.collection_uid, rp'.media_uri) = {u}
            => /\ store[u].data[1] # rp'.body_data[1]
                    => rp'.out = "IncompatibleFormat" /\ store' = store
               /\ store[u].data[2] # rp'.body_data[2]
                    => rp'.out = "IncompatibleVersion" /\ store' = store]_vars

\* C16: with exactly one match, a stored format that differs from the
\* proposed one gives IncompatibleFormat; with equal formats a stored
\* version that differs gives IncompatibleVersion; in both cases the stored
\* revision, format, version and blob are unchanged.
C16_IncompatibleFormatFirst ==
    [][LocateStep =>
        \A u \in RUids :
            StoredAt(rp'.collection_uid, rp'.media_uri) = {u}
            => /\ store[u].data[1] # rp'.body_data[1]
                    => rp'.pc = "done" /\ rp'.out = "IncompatibleFormat" /\ store' = store
               /\ (store[u].data[1] = rp'.body_data[1]
                        /\ store[u].data[2] # rp'.body_data[2])
                    => rp'.pc = "done" /\ rp'.out = "IncompatibleVersion" /\ store' = store]_vars

C16_Witness ==
    /\ rp.pc = "done"
    /\ rp.out = "IncompatibleFormat"
    /\ rp.n = 1
    /\ store[rp.uid].data[1] # rp.body_data[1]
    /\ store[rp.uid].data[2] # rp.body_data[2]

\* C17: when the update of the located entity returns NotFound or Current
\* (the entity was removed or changed between locate and update), replace
\* fails with an error and returns no ReplaceOutcome; only Updated(rev)
\* yields the outcome Updated, with the header (same uid, rev).
C17_UpdateRaceIsError ==
    [][UpdateStep =>
        /\ (~store[rp.uid].stored \/ store[rp.uid].rev # rp.rev)
            => rp'.out = "Error" /\ rp'.out \notin ReplaceOutcome
        /\ rp'.out \in ReplaceOutcome
            => /\ rp'.out = "Updated"
               /\ store[rp.uid].stored
               /\ store[rp.uid].rev = rp.rev
               /\ rp'.uid = rp.uid
               /\ rp'.rev = store'[rp.uid].rev
               /\ store'[rp.uid].data = rp.body_data]_vars

C17_Witness ==
    /\ rp.pc = "done"
    /\ rp.out = "Error"
    /\ store[rp.uid].stored
    /\ store[rp.uid].rev # rp.rev

Range(seq) == {seq[i] : i \in 1..Len(seq)}

Reported(results) ==
    Len(results.created) + Len(results.updated) + Len(results.skipped)
        + Len(results.rejected) + Len(results.discarded)

\* C18: a bulk replace never aborts on a bad item: an item that is
\* ambiguous, fails to deserialize or loses an update race is recorded as
\* rejected, one that would have to be created in mode UpdateOnly as
\* discarded, and every item of the batch is processed and reported in the
\* same result.
C18_BulkNeverAborts ==
    /\ bulk.pc \in {"item", "update"}
        => Len(bulk.log) + Len(bulk.todo) = bulk.n + (IF bulk.pc = "update" THEN 1 ELSE 0)
    /\ (bulk.pc = "done" /\ ~bulk.failed)
        => /\ bulk.ok
           /\ Len(bulk.log) = bulk.n
           /\ Reported(bulk.results) = bulk.n
           /\ \A i \in 1..Len(bulk.log) :
                LET e == bulk.log[i]
                IN  /\ (e.decoded < e.located \/ e.decoded > 1 \/ e.raced)
                        => e.kind = "rejected" /\ e.uri \in Range(bulk.results.rejected)
                    /\ (e.located = 0 /\ bulk.mode = "UpdateOnly")
                        => e.kind = "discarded" /\ e.uri \in Range(bulk.results.discarded)

C18_Witness ==
    /\ bulk.pc = "done"
    /\ bulk.ok
    /\ bulk.n = 2
    /\ bulk.log[1].raced
    /\ bulk.log[1].kind = "rejected"
    /\ bulk.log[2].kind = "created"

\* The candidates of the last call of find_duplicate that are not the track
\* itself, in the order the search delivered them.
OtherCandidates ==
    LET other(c) == c.id # dup.track_id
    IN  SelectSeq(dup.candidates, other)

CollectedAtOf(id) == (CHOOSE r \in lib[id] : TRUE).collected_at

\* C19: whatever the repository holds, whichever track T with record id id(T)
\* and whichever Params the call is made with, the list find_duplicate
\* returns holds no candidate whose id is id(T).
C19_OwnIdExcluded ==
    dup.called =>
        \A i \in 1..Len(dup.result) : dup.result[i].id # dup.track_id

\* The search delivered the track itself, and other candidates were returned.
C19_Witness ==
    /\ dup.called
    /\ \E i \in 1..Len(dup.candidates) : dup.candidates[i].id = dup.track_id
    /\ dup.result # <<>>

\* C20: find_duplicate returns at most max_results candidates (2 with the
\* default Params), in the order the search delivered them, most recently
\* collected first; the list is cut after the track's own id has been
\* removed, so with at least max_results other matches exactly max_results
\* candidates are returned.
C20_TruncatedAfterExclusion ==
    dup.called =>
        /\ Len(dup.result) <= dup.params.max_results
        /\ dup.params = ParamsNew => Len(dup.result) <= 2
        /\ dup.result = SubSeq(OtherCandidates, 1, Len(dup.result))
        /\ \A i, j \in 1..Len(dup.result) :
            i < j => CollectedAtOf(dup.result[i].id)
                        >= CollectedAtOf(dup.result[j].id)
        /\ Len(OtherCandidates) >= dup.params.max_results
            => Len(dup.result) = dup.params.max_results

\* The default Params, the track itself among the first two the search
\* delivered, two other matches, collected at different times: both returned.
C20_Witness ==
    /\ dup.called
    /\ dup.params = ParamsNew
    /\ Len(dup.candidates) = 3
    /\ \E i \in 1..2 : dup.candidates[i].id = dup.track_id
    /\ Len(dup.result) = 2
    /\ CollectedAtOf(dup.result[1].id) > CollectedAtOf(dup.result[2].id)

\* C21: starting from flags without STALE and LOCKED set together (the default
\* UNRELIABLE among them), after any sequence of update calls with non-stale
\* targets the flags never have both LOCKED and STALE set.
C21_NeverStaleWhileLocked ==
    ~({"LOCKED", "STALE"} \subseteq cm.origin)
        => ~({"LOCKED", "STALE"} \subseteq cm.flags)

\* A call on locked flags that did not apply its target.
C21_Witness ==
    /\ ~({"LOCKED", "STALE"} \subseteq cm.origin)
    /\ cm.targets # <<>>
    /\ "LOCKED" \in cm.before
    /\ ~cm.ret

\* C22: for every flags value s and every non-stale target t, update(t)
\* returns true and sets the flags to exactly t iff s without STALE is t, or t
\* is locked, or s is not locked and t is reliable; otherwise it returns
\* false, keeps every bit of s and sets STALE in addition iff s is not locked.
\* UNRELIABLE.update(RELIABLE) applies, RELIABLE.update(UNRELIABLE) returns
\* false and sets STALE, LOCKED.update(UNRELIABLE) returns false and does not.
C22_UpdateRule ==
    cm.targets # <<>> =>
        LET s == cm.before
            t == cm.targets[Len(cm.targets)]
            applies == \/ (s \ {"STALE"}) = t
                       \/ "LOCKED" \in t
                       \/ ("LOCKED" \notin s /\ "RELIABLE" \in t)
        IN  /\ cm.ret <=> applies
            /\ applies => cm.flags = t
            /\ ~applies /\ "LOCKED" \notin s => cm.flags = s \cup {"STALE"}
            /\ ~applies /\ "LOCKED" \in s => cm.flags = s
            /\ s = UNRELIABLE /\ t = {"RELIABLE"}
                => cm.ret /\ cm.flags = {"RELIABLE"}
            /\ s = {"RELIABLE"} /\ t = UNRELIABLE
                => ~cm.ret /\ cm.flags = {"RELIABLE", "STALE"}
            /\ s = {"LOCKED"} /\ t = UNRELIABLE
                => ~cm.ret /\ cm.flags = {"LOCKED"}

\* Stale unreliable flags are confirmed by an unreliable target: the call
\* applies the target and the STALE bit is gone.
C22_Witness ==
    /\ cm.targets # <<>>
    /\ cm.before = {"STALE"}
    /\ cm.targets[Len(cm.targets)] = UNRELIABLE
    /\ cm.ret
    /\ cm.flags = UNRELIABLE

\* C30: LOCKED is absorbing under automatic updates: on flags s with LOCKED
\* set, update with a non-stale target without LOCKED returns false and leaves
\* s as it is, so after any sequence of update calls with unlocked targets
\* locked flags keep exactly their bits.
C30_LockedIsAbsorbing ==
    /\ cm.targets # <<>> /\ "LOCKED" \in cm.before
            /\ "LOCKED" \notin cm.targets[Len(cm.targets)]
        => ~cm.ret /\ cm.flags = cm.before
    /\ "LOCKED" \in cm.origin
            /\ (\A i \in 1..Len(cm.targets) : "LOCKED" \notin cm.targets[i])
        => cm.flags = cm.origin

\* Locked reliable flags after two calls with unlocked targets, the last of
\* them reliable.
C30_Witness ==
    /\ cm.origin = {"RELIABLE", "LOCKED"}
    /\ Len(cm.targets) >= 2
    /\ \A i \in 1..Len(cm.targets) : "LOCKED" \notin cm.targets[i]
    /\ cm.targets[Len(cm.targets)] = {"RELIABLE"}
    /\ cm.flags = cm.origin

\* The entries of the collection of the last pass below its root.
UnderRoot == {k \in Keys : k[1] = scan.coll /\ IsUnder(scan.root, k[2])}

StatusIn(tbl, k) == IF tbl[k] = <<>> THEN None ELSE tbl[k][1].status

\* C23 as stated: after a pass that ends Finished, with no other writer of
\* the cache, no entry below the root is Outdated and every entry below the
\* root that the pass did not visit is Orphaned, whatever its status was
\* before the pass.
C23_UnvisitedOrphaned ==
    PassEnded("Finished") =>
        \A k \in UnderRoot : cache[k] # <<>> =>
            /\ StatusIn(cache, k) # "Outdated"
            /\ scan.visited[k[2]].out = None => StatusIn(cache, k) = "Orphaned"

\* C23 as the code has it: after such a pass no entry below the root is
\* Outdated; an entry the pass did not visit is Orphaned if it was Current,
\* Outdated or Orphaned before the pass and is left Added or Modified if it
\* was Added or Modified.
C23_UnvisitedOrphanedUnlessPending ==
    PassEnded("Finished") =>
        \A k \in UnderRoot : cache[k] # <<>> =>
            /\ StatusIn(cache, k) # "Outdated"
            /\ scan.visited[k[2]].out = None =>
                /\ StatusIn(scan.before, k) \in {"Current", "Outdated", "Orphaned"}
                    => StatusIn(cache, k) = "Orphaned"
                /\ StatusIn(scan.before, k) \in {"Added", "Modified"}
                    => StatusIn(cache, k) = StatusIn(scan.before, k)

\* A finished pass that left one entry it did not visit Orphaned, or left
\* one Added or Modified.
C23_Witness ==
    /\ PassEnded("Finished")
    /\ \E k \in UnderRoot :
        /\ scan.visited[k[2]].out = None
        /\ StatusIn(scan.before, k) \in {"Current", "Added", "Modified"}
        /\ StatusIn(cache, k) \in {"Orphaned", "Added", "Modified"}
        /\ fs[k[2]] = 0

\* C24: whenever a pass that ends Finished marks an entry Orphaned, the
\* directory of the entry no longer exists below the scanned root, also when
\* the pass ran with a maximum depth.
C24_OrphanedNoLongerExists ==
    PassEnded("Finished") =>
        \A k \in UnderRoot :
            (StatusIn(cache, k) = "Orphaned" /\ StatusIn(scan.before, k) # "Orphaned")
                => fs[k[2]] = 0

\* C25: a pass that ends with an error (a directory could not be read, or
\* update_directory_digest failed) has not run the reconciliation: it reports
\* no orphaned entry and marked none; the digests its visits stored are in
\* place, and the entries below the root that it did not visit and had marked
\* Outdated are still Outdated.
C25_FailedPassKeepsPartialWork ==
    PassEnded("Error") =>
        /\ scan.summary.orphaned = 0
        /\ OrphanedKeys(cache) \subseteq scan.orphaned0
        /\ \A p \in Paths : scan.visited[p].out # None =>
                /\ Len(cache[<<scan.coll, p>>]) = 1
                /\ cache[<<scan.coll, p>>][1].digest = scan.visited[p].digest
        /\ \A k \in UnderRoot :
                (scan.visited[k[2]].out = None
                    /\ StatusIn(scan.before, k) \in {"Current", "Outdated"})
                => StatusIn(cache, k) = "Outdated"

\* A failed pass after a visit that wrote a digest, with an entry that was
\* Current before the pass left Outdated.
C25_Witness ==
    /\ PassEnded("Error")
    /\ \E p \in Paths : scan.visited[p].out \in {"Updated", "Inserted"}
    /\ \E k \in UnderRoot :
            /\ scan.visited[k[2]].out = None
            /\ StatusIn(scan.before, k) = "Current"
            /\ StatusIn(cache, k) = "Outdated"

\* The filters of the last call of find_duplicate with the given kind and
\* field, as the set of their positions in the list.
FiltersOn(kind, field) ==
    {i \in 1..Len(dup.filters) :
        dup.filters[i].kind = kind /\ dup.filters[i].field = field}

\* A string field gives a sub-filter iff its flag is set and its value,
\* without the blanks around it, is not empty; the term is that value.
PhraseAsClaimed(flag, field) ==
    LET value == dup.track[field]
        given == /\ flag \in dup.params.search_flags
                 /\ \E s \in value : \E i \in 1..Len(s) : s[i] # Blank
    IN  /\ Cardinality(FiltersOn("Phrase", field)) = IF given THEN 1 ELSE 0
        /\ \A i \in FiltersOn("Phrase", field) :
            /\ \E s \in value : dup.filters[i].arg = trim(s)
            /\ dup.filters[i].arg # <<>>
            /\ Head(dup.filters[i].arg) # Blank
            /\ dup.filters[i].arg[Len(dup.filters[i].arg)] # Blank

\* What the list of filters of the last call holds, and that the candidates
\* pass every filter of it.
FilterStructure ==
        /\ Cardinality(FiltersOn("Numeric", "duration")) = 1
        /\ \A i \in FiltersOn("Numeric", "duration") :
            IF dup.track.duration = {} THEN dup.filters[i].arg = {}
            ELSE \E d \in dup.track.duration :
                    dup.filters[i].arg =
                        {[lo |-> d - dup.params.audio_duration_tolerance,
                          hi |-> d + dup.params.audio_duration_tolerance]}
        /\ Cardinality(FiltersOn("Phrase", "content_type")) = 1
        /\ \A i \in FiltersOn("Phrase", "content_type") :
            dup.filters[i].arg = dup.track.content_type
        /\ PhraseAsClaimed("TRACK_ARTIST", "track_artist")
        /\ PhraseAsClaimed("TRACK_TITLE", "track_title")
        /\ PhraseAsClaimed("ALBUM_ARTIST", "album_artist")
        /\ PhraseAsClaimed("ALBUM_TITLE", "album_title")
        /\ Cardinality(FiltersOn("DateTime", "released_at"))
            = IF "RELEASED_AT" \in dup.params.search_flags THEN 1 ELSE 0
        /\ \A i \in FiltersOn("DateTime", "released_at") :
            dup.filters[i].arg = dup.track.released_at
        /\ Cardinality(FiltersOn("Condition", "tracked"))
            = IF "SOURCE_TRACKED" \in dup.params.search_flags THEN 1 ELSE 0
        /\ \A i \in 1..Len(dup.filters) :
            i \in FiltersOn("Numeric", "duration")
                    \cup FiltersOn("Phrase", "content_type")
                    \cup FiltersOn("Phrase", "track_artist")
                    \cup FiltersOn("Phrase", "track_title")
                    \cup FiltersOn("Phrase", "album_artist")
                    \cup FiltersOn("Phrase", "album_title")
                    \cup FiltersOn("DateTime", "released_at")
                    \cup FiltersOn("Condition", "tracked")
        /\ \A c \in 1..Len(dup.candidates) : \A i \in 1..Len(dup.filters) :
            \E r \in lib[dup.candidates[c].id] : Matches(r, dup.filters[i])

\* C26: the filter find_duplicate builds is a conjunction that always holds
\* a constraint on the audio duration (within the tolerance around the
\* duration of the track, or "is null" when the track has none) and one on an
\* equal content type; it holds a sub-filter for track artist, track title,
\* album artist, album title, release date or source-tracked only if the flag
\* is set; a string field that is missing or blank gives none even with its
\* flag set, and a missing release date with RELEASED_AT set gives "released
\* at is null".
C26_FilterBuilt ==
    dup.called =>
        /\ FilterStructure
        /\ \A c \in 1..Len(dup.candidates) :
            dup.candidates[c].entity.content_type = dup.track.content_type

\* C27: reset_entry_status_to_current(path, digest) returns true iff an
\* entry exists at the path with exactly that digest, and then sets its
\* status to Current whatever it was, with the digest as it is; when it
\* returns false the store is as before and no entry was created.
C27_ResetToCurrent ==
    last.op = "reset_entry_status_to_current" =>
        LET k == <<last.coll, last.uri>>
            found == last.pre # <<>> /\ last.pre[1].digest = last.digest
        IN  /\ last.out = "true" <=> found
            /\ last.rows = IF found THEN 1 ELSE 0
            /\ found =>
                /\ cache[k] = <<[digest |-> last.digest, status |-> "Current"]>>
                /\ last.changed \subseteq {k}
            /\ ~found =>
                /\ last.changed = {}
                /\ cache[k] = last.pre

\* A call that confirmed an entry that was Added, Modified or Orphaned.
C27_Witness ==
    /\ last.op = "reset_entry_status_to_current"
    /\ last.out = "true"
    /\ last.pre[1].status \in {"Added", "Modified", "Orphaned"}
    /\ cache[<<last.coll, last.uri>>][1].status = "Current"

UnwrittenLists == {"skipped", "rejected", "discarded"}

====
